---- MODULE Spec2Model ----
(***************************************************************************)
(* Model of the coalition ledger (simulations/coalition_formation.py),     *)
(* the reputation-weighted payoff split (negotiation/negotiation_module.py,*)
(* memory/agent_memory.py) and the pay-per-request retry loop              *)
(* (agents/agent.py, agents/x402_payment_handler_v2.py).                   *)
(*                                                                         *)
(* Python floats are modelled as exact rationals: a payoff share is the    *)
(* pair (num[a], den) with one denominator per split.  Reputations and     *)
(* payoffs are drawn from integer grids.                                   *)
(***************************************************************************)
EXTENDS Integers, Sequences, FiniteSets, TLC

\* ------------------------------------------------------------------ bounds
NumAgents == 6
NumMemories == 3
MaxCandidates == 2
MaxProposals == 2
MaxCoalitionId == 3
MaxRetriesArg == 2
MaxFlows == 2
MaxConfigRetries == 4
MaxHandleCalls == 2
MaxTradeCalls == 1
MaxDollars == 2
MaxModCalls == 2
MaxSwanCalls == 3
NumThreads == 2
NumPosters == 2
PostInterval == 2
MaxTicks == 3
MaxPostCalls == 3
MaxPaymentCalls == 1

Agents == 1..NumAgents
\* agents that were given an AgentMemory at construction (agent_memories dict)
MemAgents == 1..NumMemories
CoalitionIds == 1..MaxCoalitionId

\* ------------------------------------------------------- program constants
MinCoalitionSize == 3
NeutralReputation == 1
MinReputation == 0
MaxReputation == 5
DefaultPayoffThreshold == 1
MinMemberPayoff == 1
MaxMemberPayoff == 10

\* inputs the callers may pass
ReputationDeltas == {-5, 5}
PayoffThresholds == {DefaultPayoffThreshold, 2}

VARIABLES
    coalitions,               \* self.coalitions: coalition_id -> set of agent ids
    next_coalition_id,        \* self.next_coalition_id
    agent_to_coalition,       \* self.agent_to_coalition: agent id -> coalition_id
    coalition_payoff_shares,  \* self.coalition_payoff_shares: coalition_id -> shares
    reputation_score,         \* AgentMemory.reputation_score of each memory
    negotiation_history,      \* AgentMemory.negotiation_history of each memory
    proposals,                \* the proposal dicts returned so far, held by the caller
    lastCall                  \* the latest ledger call: operation and return value

VARIABLES
    wallet,          \* X402PaymentHandler.wallet_manager after _initialize_wallet
    receipts,        \* X402PaymentHandler.receipts
    metrics,         \* X402ErrorHandler.metrics
    pc,              \* position inside get_resource_with_x402_retry
    max_retries,     \* its max_retries argument
    attempt,         \* its loop counter
    response,        \* the response it currently holds
    payment_header,  \* the X-PAYMENT header built for the resend
    result,          \* what the call returned
    sent,            \* the requests issued by this call and their responses
    handler_calls,   \* calls made on the payment handler by this call
    flows            \* number of calls of get_resource_with_x402_retry started

VARIABLES
    config_max_retries,  \* X402PaymentHandler.config["max_retries"]
    h_pc,                \* position inside handle_402_response
    h_response,          \* its response_text argument
    h_attempt,           \* its loop counter
    h_tries,             \* passes through its try block in this call
    h_errors,            \* the exceptions its except clause caught in this call
    h_result,            \* what the call returned
    h_calls              \* number of calls of handle_402_response started

VARIABLES
    v1_wallet_manager,   \* wallet_manager of the first-version X402PaymentHandler
    v1_last              \* its latest sign_payment_authorization call

VARIABLES
    setup,               \* the initiator object, its archetype, agent_memories
    appraisal_history,   \* appraisal_history of the initiator
    events,              \* events logged to the memories in agent_memories
    trade_history,       \* NegotiationModule.trade_history
    current_owned_nfts,  \* current_owned_nfts of the initiator
    pitches,             \* pitches generated and what they cost
    uuids,               \* number of uuid4 values drawn so far
    last_trade,          \* what the latest negotiation or evaluation returned
    trade_calls          \* number of negotiations and evaluations made

VARIABLES
    logic_inputs,  \* the arguments _apply_archetype_logic is called with
    final_values   \* what it returned for each archetype, once called

VARIABLES
    mod_setup,          \* the agent memory the modules were built with, and live_mode
    registry_capsules,  \* CapsuleRegistry._capsules: capsule id -> capsule
    audit_trail,        \* GenesisSelfModificationRequest.audit_trail (event types)
    last_mod,           \* what the latest propose_modification returned, or that it raised
    mod_calls           \* number of propose_modification calls made

VARIABLES
    chaos_pack,          \* EXPERIMENTAL_FEATURES["chaos_pack"]
    black_swan_enabled,  \* _black_swan_enabled
    applied_events,      \* the events whose effects were applied, with their ids
    event_ids,           \* number of uuid4 values inject_chaotic_event drew
    last_swan,           \* the latest engine call and what it returned
    swan_calls           \* number of inject_chaotic_event calls made

VARIABLES
    hall_chaos_pack,  \* EXPERIMENTAL_FEATURES["chaos_pack"] of the hall's module
    clock,            \* what time.time() returns now
    hall_lock,        \* the thread holding AnonymousBroadcastHall._lock, 0 when free
    dreams,           \* the timestamps of AnonymousBroadcastHall._dreams
    last_post_time,   \* AnonymousBroadcastHall._last_post_time
    t_pc,             \* position of each thread inside post_dream
    t_agent,          \* the agent_id argument of each thread's call
    t_now,            \* the time can_post read in each thread's call
    t_stamp,          \* the timestamp each thread's call gave its dream
    t_outcome,        \* how each thread's latest call ended
    accepted_posts,   \* the posts accepted so far, with their agent
    post_calls        \* number of post_dream calls started

ledgerVars == <<coalitions, next_coalition_id, agent_to_coalition,
                coalition_payoff_shares, reputation_score, negotiation_history,
                proposals, lastCall>>

handlerVars == <<wallet, receipts, metrics>>

flowVars == <<pc, max_retries, attempt, response, payment_header, result,
              sent, handler_calls, flows>>

payVars == <<wallet, receipts, metrics, pc, max_retries, attempt, response,
             payment_header, result, sent, handler_calls, flows>>

handleVars == <<config_max_retries, h_pc, h_response, h_attempt, h_tries,
                h_errors, h_result, h_calls>>

v1Vars == <<v1_wallet_manager, v1_last>>

tradeVars == <<setup, appraisal_history, events, trade_history,
               current_owned_nfts, pitches, uuids, last_trade, trade_calls>>

archVars == <<logic_inputs, final_values>>

modVars == <<mod_setup, registry_capsules, audit_trail, last_mod, mod_calls>>

swanVars == <<chaos_pack, black_swan_enabled, applied_events, event_ids,
              last_swan, swan_calls>>

hallVars == <<hall_chaos_pack, clock, hall_lock, dreams, last_post_time, t_pc,
              t_agent, t_now, t_stamp, t_outcome, accepted_posts, post_calls>>

\* what the coalition ledger's operations leave alone
outsideLedger == <<payVars, handleVars, v1Vars, tradeVars, archVars, modVars,
                   swanVars, hallVars>>

\* what get_resource_with_x402_retry leaves alone, the handler apart
outsidePay == <<ledgerVars, handleVars, v1Vars, tradeVars, archVars, modVars,
                swanVars, hallVars>>

\* what handle_402_response leaves alone, the handler apart
outsideHandle == <<ledgerVars, flowVars, v1Vars, tradeVars, archVars, modVars,
                   swanVars, hallVars>>

\* what the first-version handler leaves alone
outsideV1 == <<ledgerVars, payVars, handleVars, tradeVars, archVars, modVars,
               swanVars, hallVars>>

\* what the negotiation module's appraisal calls leave alone
outsideTrade == <<ledgerVars, payVars, handleVars, v1Vars, archVars, modVars,
                  swanVars, hallVars>>

\* what _apply_archetype_logic leaves alone
outsideArchetype == <<ledgerVars, payVars, handleVars, v1Vars, tradeVars,
                      modVars, swanVars, hallVars>>

\* what propose_modification leaves alone
outsideModification == <<ledgerVars, payVars, handleVars, v1Vars, tradeVars,
                         archVars, swanVars, hallVars>>

\* what the black swan engine leaves alone
outsideWorld == <<ledgerVars, payVars, handleVars, v1Vars, tradeVars,
                  archVars, modVars, hallVars>>

\* what the broadcast hall leaves alone
outsideHall == <<ledgerVars, payVars, handleVars, v1Vars, tradeVars, archVars,
                 modVars, swanVars>>

vars == <<coalitions, next_coalition_id, agent_to_coalition,
          coalition_payoff_shares, reputation_score, negotiation_history,
          proposals, lastCall, wallet, receipts, metrics, pc, max_retries,
          attempt, response, payment_header, result, sent, handler_calls,
          flows, config_max_retries, h_pc, h_response, h_attempt, h_tries,
          h_errors, h_result, h_calls, v1_wallet_manager, v1_last, setup,
          appraisal_history, events, trade_history, current_owned_nfts,
          pitches, uuids, last_trade, trade_calls, logic_inputs, final_values,
          mod_setup, registry_capsules, audit_trail, last_mod, mod_calls,
          chaos_pack, black_swan_enabled, applied_events, event_ids,
          last_swan, swan_calls, hall_chaos_pack, clock, hall_lock, dreams,
          last_post_time, t_pc, t_agent, t_now, t_stamp, t_outcome, accepted_posts,
          post_calls>>

\* ----------------------------------------------------------------- helpers
RECURSIVE SumOver(_, _)
SumOver(f, S) ==
    IF S = {} THEN 0
    ELSE LET x == CHOOSE y \in S : TRUE IN f[x] + SumOver(f, S \ {x})

Abs(x) == IF x < 0 THEN -x ELSE x

Max2(a, b) == IF a > b THEN a ELSE b
Min2(a, b) == IF a < b THEN a ELSE b

\* dict.pop(key, None) / dict without a key
DictPop(d, k) == [x \in DOMAIN d \ {k} |-> d[x]]
\* d[k] = v
DictSet(d, k, v) == (k :> v) @@ d

NoShares == [num |-> <<>>, den |-> 1]

\* ------------------------------------------------------------ AgentMemory
get_reputation(agent_id) == reputation_score[agent_id]

clamp_reputation(r) == Max2(MinReputation, Min2(r, MaxReputation))

\* ------------------------------------------------------ NegotiationModule
\* mutant: an agent without a memory counts with reputation 0
reputation_of_absent_zero(agent_id) ==
    IF agent_id \in MemAgents THEN get_reputation(agent_id) ELSE 0

\* rep = mem.get_reputation() if mem else 1.0
reputation_of(agent_id) ==
    IF agent_id \in MemAgents THEN get_reputation(agent_id) ELSE NeutralReputation

reputations_of(members) == [a \in members |-> reputation_of(a)]

total_reputation_of(members) == SumOver(reputations_of(members), members)

\* mutant: weights by reputation but divides by the member count
propose_split_by_count(total_payoff, members) ==
    [num |-> [a \in members |-> reputation_of(a) * total_payoff],
     den |-> Cardinality(members)]

\* shares[a] = num[a] / den
propose_split(total_payoff, members) ==
    IF total_reputation_of(members) = 0
    THEN [num |-> [a \in members |-> total_payoff],
          den |-> Cardinality(members)]
    ELSE [num |-> [a \in members |-> reputation_of(a) * total_payoff],
          den |-> total_reputation_of(members)]

\* the outcome propose_split logs into the memory of a member that has one
split_outcome(total_payoff, members, shares, agent_id) ==
    [coalition_members |-> members,
     total_payoff |-> total_payoff,
     proposed_share |-> <<shares.num[agent_id], shares.den>>,
     reputation |-> reputation_of(agent_id)]

log_split(total_payoff, members, shares) ==
    [m \in MemAgents |->
        IF m \in members
        THEN Append(negotiation_history[m],
                    split_outcome(total_payoff, members, shares, m))
        ELSE negotiation_history[m]]

\* ----------------------------------------------------- CoalitionFormation
\* payoff_shares.get(agent_id, 0) < payoff_threshold
share_below(shares, agent_id, payoff_threshold) ==
    IF agent_id \in DOMAIN shares.num
    THEN shares.num[agent_id] < payoff_threshold * shares.den
    ELSE 0 < payoff_threshold

\* sum(random.uniform(1, 10) for _ in members): the two extremes and a value
\* between them that the member count does not divide
PooledPayoffs(members) ==
    {MinMemberPayoff * Cardinality(members),
     4 * Cardinality(members) + 1,
     MaxMemberPayoff * Cardinality(members)}

\* the draw in which every member contributes the minimum
LowPayoffs(members) == {MinMemberPayoff * Cardinality(members)}

in_coalition(agent_id) == agent_to_coalition[agent_id] # 0

\* the operation called last and what it returned; val is the coalition id
\* inside a returned proposal or returned by a merge, 0 otherwise
Call(op, ret, val) == [op |-> op, ret |-> ret, val |-> val]

InitLedger ==
    /\ coalitions = <<>>
    /\ next_coalition_id = 1
    /\ agent_to_coalition = [a \in Agents |-> 0]
    /\ coalition_payoff_shares = <<>>
    /\ reputation_score = [m \in MemAgents |-> NeutralReputation]
    /\ negotiation_history = [m \in MemAgents |-> <<>>]
    /\ proposals = <<>>
    /\ lastCall = Call("init", "void", 0)

\* AgentMemory.update_reputation(delta)
update_reputation(m, delta) ==
    /\ reputation_score' =
         [reputation_score EXCEPT ![m] = clamp_reputation(@ + delta)]
    /\ lastCall' = Call("update_reputation", "void", 0)
    /\ UNCHANGED <<coalitions, next_coalition_id, agent_to_coalition,
                   coalition_payoff_shares, negotiation_history, proposals>>

\* members = set(candidate_agent_ids); members.add(proposing_agent_id)
proposal_members(proposing_agent_id, candidate_agent_ids) ==
    candidate_agent_ids \cup {proposing_agent_id}

\* the two early returns of propose_coalition
propose_rejected(members) ==
    \/ Cardinality(members) < MinCoalitionSize
    \/ \E a \in members : in_coalition(a)

new_proposal(members, pooled_payoff) ==
    [coalition_id |-> next_coalition_id,
     members |-> members,
     pooled_payoff |-> pooled_payoff,
     payoff_shares |-> propose_split(pooled_payoff, members),
     accepted |-> FALSE]

propose_coalition(proposing_agent_id, candidate_agent_ids, pooled_payoff) ==
    LET members == proposal_members(proposing_agent_id, candidate_agent_ids) IN
    IF propose_rejected(members)
    THEN /\ lastCall' = Call("propose_coalition", "none", 0)
         /\ UNCHANGED <<coalitions, next_coalition_id, agent_to_coalition,
                        coalition_payoff_shares, reputation_score,
                        negotiation_history, proposals>>
    ELSE /\ Len(proposals) < MaxProposals
         /\ LET proposal == new_proposal(members, pooled_payoff) IN
              /\ negotiation_history' =
                   log_split(pooled_payoff, members, proposal.payoff_shares)
              /\ proposals' = Append(proposals, proposal)
         /\ lastCall' = Call("propose_coalition", "proposal", next_coalition_id)
         /\ UNCHANGED <<coalitions, next_coalition_id, agent_to_coalition,
                        coalition_payoff_shares, reputation_score>>

\* mutant: the re-check at commit time is left out
accept_rejected_never(proposal) == FALSE

\* the re-check at the head of accept_coalition
accept_rejected(proposal) == \E a \in proposal.members : in_coalition(a)

\* mutant: only one member of the proposal is entered in the reverse index
index_after_accept_one(proposal) ==
    [a \in Agents |->
        IF a = (CHOOSE m \in proposal.members :
                   \A n \in proposal.members : m <= n)
        THEN proposal.coalition_id
        ELSE agent_to_coalition[a]]

\* for agent_id in members: self.agent_to_coalition[agent_id] = coalition_id
index_after_accept(proposal) ==
    [a \in Agents |-> IF a \in proposal.members
                      THEN proposal.coalition_id
                      ELSE agent_to_coalition[a]]

accept_coalition(i) ==
    LET proposal == proposals[i] IN
    IF accept_rejected(proposal)
    THEN /\ lastCall' = Call("accept_coalition", "false", 0)
         /\ UNCHANGED <<coalitions, next_coalition_id, agent_to_coalition,
                        coalition_payoff_shares, reputation_score,
                        negotiation_history, proposals>>
    ELSE /\ coalitions' =
              DictSet(coalitions, proposal.coalition_id, proposal.members)
         /\ agent_to_coalition' = index_after_accept(proposal)
         /\ coalition_payoff_shares' =
              DictSet(coalition_payoff_shares, proposal.coalition_id,
                      proposal.payoff_shares)
         /\ proposals' = [proposals EXCEPT ![i].accepted = TRUE]
         /\ lastCall' = Call("accept_coalition", "true", 0)
         /\ UNCHANGED <<next_coalition_id, reputation_score,
                        negotiation_history>>

\* the ledger after dissolve_coalition(coalition_id), as
\* <<coalitions, agent_to_coalition, coalition_payoff_shares>>
dissolved(cs, a2c, shares, coalition_id) ==
    IF coalition_id \notin DOMAIN cs
    THEN <<cs, a2c, shares>>
    ELSE <<DictPop(cs, coalition_id),
           [a \in Agents |-> IF a \in cs[coalition_id] THEN 0 ELSE a2c[a]],
           DictPop(shares, coalition_id)>>

dissolve_coalition(coalition_id) ==
    LET d == dissolved(coalitions, agent_to_coalition,
                       coalition_payoff_shares, coalition_id) IN
    /\ coalitions' = d[1]
    /\ agent_to_coalition' = d[2]
    /\ coalition_payoff_shares' = d[3]
    /\ lastCall' = Call("dissolve_coalition", "void", 0)
    /\ UNCHANGED <<next_coalition_id, reputation_score, negotiation_history,
                   proposals>>

\* mutant: the coalition is kept until fewer than 2 members remain
too_small_below_two(coalition_members) ==
    Cardinality(coalition_members) < MinCoalitionSize - 1

\* len(coalition_members) < 3
too_small(coalition_members) ==
    Cardinality(coalition_members) < MinCoalitionSize

\* self.coalition_payoff_shares.get(coalition_id, {})
shares_of(coalition_id) ==
    IF coalition_id \in DOMAIN coalition_payoff_shares
    THEN coalition_payoff_shares[coalition_id]
    ELSE NoShares

\* self.coalitions.get(coalition_id, set())
members_of(coalition_id) ==
    IF coalition_id \in DOMAIN coalitions THEN coalitions[coalition_id] ELSE {}

agent_leave_coalition(agent_id, payoff_threshold) ==
    LET coalition_id == agent_to_coalition[agent_id]
        unchanged == UNCHANGED <<coalitions, next_coalition_id,
                                 agent_to_coalition, coalition_payoff_shares,
                                 reputation_score, negotiation_history,
                                 proposals>>
    IN
    IF coalition_id = 0
    THEN /\ lastCall' = Call("agent_leave_coalition", "false", 0)
         /\ unchanged
    ELSE IF ~share_below(shares_of(coalition_id), agent_id, payoff_threshold)
    THEN /\ lastCall' = Call("agent_leave_coalition", "false", 0)
         /\ unchanged
    ELSE IF agent_id \notin members_of(coalition_id)
    THEN \* coalition_members.remove(agent_id) raises KeyError
         /\ lastCall' = Call("agent_leave_coalition", "raise", 0)
         /\ unchanged
    ELSE LET coalition_members == members_of(coalition_id) \ {agent_id}
             cs == DictSet(coalitions, coalition_id, coalition_members)
             a2c == [agent_to_coalition EXCEPT ![agent_id] = 0]
             d == IF too_small(coalition_members)
                  THEN dissolved(cs, a2c, coalition_payoff_shares, coalition_id)
                  ELSE <<cs, a2c, coalition_payoff_shares>>
         IN
         /\ coalitions' = d[1]
         /\ agent_to_coalition' = d[2]
         /\ coalition_payoff_shares' = d[3]
         /\ lastCall' = Call("agent_leave_coalition", "true", 0)
         /\ UNCHANGED <<next_coalition_id, reputation_score,
                        negotiation_history, proposals>>

\* the two early returns of merge_coalitions
merge_rejected(coalition_id1, coalition_id2) ==
    \/ members_of(coalition_id1) = {}
    \/ members_of(coalition_id2) = {}
    \/ Cardinality(members_of(coalition_id1) \cup members_of(coalition_id2))
         < MinCoalitionSize

merge_coalitions(coalition_id1, coalition_id2) ==
    IF merge_rejected(coalition_id1, coalition_id2)
    THEN /\ lastCall' = Call("merge_coalitions", "none", 0)
         /\ UNCHANGED <<coalitions, next_coalition_id, agent_to_coalition,
                        coalition_payoff_shares, reputation_score,
                        negotiation_history, proposals>>
    ELSE LET combined_members ==
                 members_of(coalition_id1) \cup members_of(coalition_id2)
             d1 == dissolved(coalitions, agent_to_coalition,
                             coalition_payoff_shares, coalition_id1)
             d2 == dissolved(d1[1], d1[2], d1[3], coalition_id2)
             new_coalition_id == next_coalition_id
         IN
         /\ next_coalition_id < MaxCoalitionId
         /\ next_coalition_id' = next_coalition_id + 1
         /\ coalitions' = DictSet(d2[1], new_coalition_id, combined_members)
         /\ agent_to_coalition' =
              [a \in Agents |-> IF a \in combined_members
                                THEN new_coalition_id ELSE d2[2][a]]
         /\ coalition_payoff_shares' = d2[3]
         /\ lastCall' = Call("merge_coalitions", "id", new_coalition_id)
         /\ UNCHANGED <<reputation_score, negotiation_history, proposals>>

\* ------------------------------------- X402PaymentHandler (handler v2)
\* the wallet managers a handler can be built with: an object that offers
\* sign_typed_data, a WalletManager that has or creates a wallet, and one
\* that has no address and cannot create one
WalletManagers == {"typed", "plain", "failing"}

\* _initialize_wallet: a manager without an address is replaced by FallbackWallet
initialize_wallet(manager) ==
    IF manager = "failing" THEN "fallback" ELSE manager

\* what wallet_manager.sign_typed_data can do
SignerOutcomes == {"signature", "nothing", "raises"}

StatusOK == 200
StatusCreated == 201
StatusPaymentRequired == 402
StatusForbidden == 403

NoResponse == [status |-> 0, body |-> "", paymentId |-> <<>>]

\* requests.get raised
RequestException == [status |-> 0, body |-> "exception", paymentId |-> <<>>]

PaymentBodies == {"valid", "missing_field", "invalid_json", "bad_amount"}

NoParams == [ok |-> FALSE, amount_ok |-> FALSE, paymentId |-> <<>>]

\* mutant: a body with a missing field is accepted
parse_402_response_lenient(resp) ==
    IF resp.body = "invalid_json"
    THEN NoParams
    ELSE [ok |-> TRUE, amount_ok |-> resp.body # "bad_amount",
          paymentId |-> resp.paymentId]

\* None when json.loads fails or a required field is missing
parse_402_response(resp) ==
    IF resp.body \in {"invalid_json", "missing_field"}
    THEN NoParams
    ELSE [ok |-> TRUE, amount_ok |-> resp.body # "bad_amount",
          paymentId |-> resp.paymentId]

record_success(m) == [m EXCEPT !.x402_success_total = @ + 1]

record_failure(m) == [m EXCEPT !.x402_failed_total = @ + 1]

\* float(maxAmountRequired) or sign_typed_data raises inside the try block
sign_raises(params, w, outcome) ==
    \/ ~params.amount_ok
    \/ w = "typed" /\ outcome = "raises"

\* the signature the wallet hands back, "" for none
signature_of(w, outcome) ==
    IF w = "typed"
    THEN (IF outcome = "signature" THEN "0xSignature" ELSE "")
    ELSE IF w = "fallback" THEN "0xmocksignature" ELSE "0xmocksig"

new_receipt(params, signature) ==
    [payment_id |-> params.paymentId, signature |-> signature,
     status |-> "success"]

\* returns the signature ("" for None) with the receipts and metrics it leaves
sign_payment_authorization(params, w, outcome) ==
    IF sign_raises(params, w, outcome)
    THEN [signature |-> "", receipts |-> receipts,
          metrics |-> record_failure(metrics)]
    ELSE IF signature_of(w, outcome) = ""
    THEN [signature |-> "", receipts |-> receipts, metrics |-> metrics]
    ELSE [signature |-> signature_of(w, outcome),
          receipts |-> Append(receipts,
                              new_receipt(params, signature_of(w, outcome))),
          metrics |-> record_success(metrics)]

construct_payment_header(signature, params) ==
    [signature |-> signature, paymentId |-> params.paymentId]

NoHeader == [signature |-> "", paymentId |-> <<>>]

\* ------------------- AgentLifecycleManager.get_resource_with_x402_retry
RetryArgs == 0..MaxRetriesArg

Pending == [returned |-> "pending", response |-> NoResponse]
ReturnedNone == [returned |-> "none", response |-> NoResponse]
Returned(resp) == [returned |-> "response", response |-> resp]

NoHandlerCalls == [parse |-> 0, sign |-> 0, header |-> 0]

\* the server's answer to a request: a status, and for a 402 a body
ServerResponses ==
    {[status |-> st, body |-> "", paymentId |-> <<>>] :
        st \in {StatusOK, StatusCreated, StatusForbidden}}
    \cup {[status |-> StatusPaymentRequired, body |-> b,
           paymentId |-> <<flows, Len(sent) + 1>>] : b \in PaymentBodies}
    \cup {RequestException}

\* the body of the answer to a resend is never read
ResendResponses == {r \in ServerResponses : r.body \in {"", "valid", "exception"}}

\* mutant: the loop stops one iteration early
loop_continues_strict(att, mr) == att < mr

\* while attempt <= max_retries
loop_continues(att, mr) == att <= mr

\* mutant: every client error is taken for a payment request
payment_required_any_4xx(resp) == resp.status >= 400

\* if response.status_code != 402 (negated)
payment_required(resp) == resp.status = StatusPaymentRequired

\* mutant: the success test of the resend is inverted
resend_succeeded_inverted(resp) == resp.status # StatusOK

\* if response.status_code == 200
resend_succeeded(resp) == resp.status = StatusOK

InitHandler(manager) ==
    /\ wallet = initialize_wallet(manager)
    /\ receipts = <<>>
    /\ metrics = [x402_attempts_total |-> 0, x402_success_total |-> 0,
                  x402_failed_total |-> 0, x402_retry_total |-> 0]

InitFlow ==
    /\ pc = "idle"
    /\ max_retries = 0
    /\ attempt = 0
    /\ response = NoResponse
    /\ payment_header = NoHeader
    /\ result = Pending
    /\ sent = <<>>
    /\ handler_calls = NoHandlerCalls
    /\ flows = 0

\* entry of get_resource_with_x402_retry: attempt = 0 and the first loop test
StartFlow(mr) ==
    /\ pc \in {"idle", "done"}
    /\ flows < MaxFlows
    /\ flows' = flows + 1
    /\ max_retries' = mr
    /\ attempt' = 0
    /\ response' = NoResponse
    /\ payment_header' = NoHeader
    /\ sent' = <<>>
    /\ handler_calls' = NoHandlerCalls
    /\ IF loop_continues(0, mr)
       THEN pc' = "request" /\ result' = Pending
       ELSE pc' = "done" /\ result' = ReturnedNone
    /\ UNCHANGED handlerVars
    /\ UNCHANGED outsidePay

\* response = requests.get(url), and the status test that follows
Request(resp) ==
    /\ pc = "request"
    /\ sent' = Append(sent, [kind |-> "get", response |-> resp])
    /\ IF resp = RequestException
       THEN pc' = "done" /\ result' = ReturnedNone /\ UNCHANGED response
       ELSE IF ~payment_required(resp)
       THEN pc' = "done" /\ result' = Returned(resp) /\ response' = resp
       ELSE pc' = "pay" /\ response' = resp /\ UNCHANGED result
    /\ UNCHANGED <<max_retries, attempt, payment_header, handler_calls, flows>>
    /\ UNCHANGED handlerVars
    /\ UNCHANGED outsidePay

\* parse the 402 body, sign the authorization, build the X-PAYMENT header
Pay(outcome) ==
    /\ pc = "pay"
    /\ LET params == parse_402_response(response) IN
       IF ~params.ok
       THEN /\ handler_calls' = [handler_calls EXCEPT !.parse = @ + 1]
            /\ pc' = "done"
            /\ result' = Returned(response)
            /\ UNCHANGED <<payment_header, receipts, metrics>>
       ELSE LET signed == sign_payment_authorization(params, wallet, outcome) IN
            /\ receipts' = signed.receipts
            /\ metrics' = signed.metrics
            /\ IF signed.signature = ""
               THEN /\ handler_calls' = [handler_calls EXCEPT
                                            !.parse = @ + 1, !.sign = @ + 1]
                    /\ pc' = "done"
                    /\ result' = Returned(response)
                    /\ UNCHANGED payment_header
               ELSE /\ handler_calls' = [handler_calls EXCEPT
                                            !.parse = @ + 1, !.sign = @ + 1,
                                            !.header = @ + 1]
                    /\ payment_header' =
                         construct_payment_header(signed.signature, params)
                    /\ pc' = "resend"
                    /\ UNCHANGED result
    /\ UNCHANGED <<wallet, max_retries, attempt, response, sent, flows>>
    /\ UNCHANGED outsidePay

\* response = requests.get(url, headers=payment_header), the status test,
\* attempt += 1 and the next loop test
Resend(resp) ==
    /\ pc = "resend"
    /\ sent' = Append(sent, [kind |-> "paid", response |-> resp])
    /\ IF resp = RequestException
       THEN /\ pc' = "done" /\ result' = ReturnedNone
            /\ UNCHANGED <<response, attempt>>
       ELSE IF resend_succeeded(resp)
       THEN /\ pc' = "done" /\ result' = Returned(resp) /\ response' = resp
            /\ UNCHANGED attempt
       ELSE /\ response' = resp
            /\ attempt' = attempt + 1
            /\ IF loop_continues(attempt + 1, max_retries)
               THEN pc' = "request" /\ UNCHANGED result
               ELSE pc' = "done" /\ result' = ReturnedNone
    /\ UNCHANGED <<max_retries, payment_header, handler_calls, flows>>
    /\ UNCHANGED handlerVars
    /\ UNCHANGED outsidePay

StartStep == \E mr \in RetryArgs : StartFlow(mr)

RequestStep == \E resp \in ServerResponses : Request(resp)

PayStep == \E outcome \in SignerOutcomes : Pay(outcome)

ResendStep == \E resp \in ResendResponses : Resend(resp)

\* ------------------------------ X402PaymentHandler.handle_402_response
\* X402_MAX_RETRIES is unset: int(os.getenv("X402_MAX_RETRIES", "3"))
DefaultMaxRetries == 3

\* X402ErrorHandler() is built without an argument: max_retries = 3
ErrorHandlerMaxRetries == 3

\* the values X402_MAX_RETRIES can configure
ConfigRetries == 0..MaxConfigRetries

\* str(error) contains expired, network, timeout or connection, or does not
ErrorClasses == {"retryable", "other"}

\* the call of the try block that raises instead of returning
FaultPoints == {"parse", "sign", "header"}

NoFault == [point |-> "none", class |-> "none"]

Faults == {NoFault} \cup [point : FaultPoints, class : ErrorClasses]

BackoffCap == 10

RECURSIVE Pow2(_)
Pow2(n) == IF n = 0 THEN 1 ELSE 2 * Pow2(n - 1)

\* time.sleep(min(2 ** attempt, 10))
backoff(att) == Min2(Pow2(att), BackoffCap)

\* X402ErrorHandler.should_retry
should_retry(class, att) ==
    IF att >= ErrorHandlerMaxRetries THEN FALSE ELSE class = "retryable"

record_attempt(m) == [m EXCEPT !.x402_attempts_total = @ + 1]

record_retry(m) == [m EXCEPT !.x402_retry_total = @ + 1]

InitHandle(configured) ==
    /\ config_max_retries = configured
    /\ h_pc = "idle"
    /\ h_response = NoResponse
    /\ h_attempt = 0
    /\ h_tries = 0
    /\ h_errors = <<>>
    /\ h_result = "pending"
    /\ h_calls = 0

\* mutant: the loop of handle_402_response admits one more pass
handle_loop_continues_once_more(att) == att <= config_max_retries + 1

\* while attempt <= self.config["max_retries"]
handle_loop_continues(att) == att <= config_max_retries

\* entry of handle_402_response: attempt = 1 and the first loop test
CallHandle(body) ==
    /\ h_pc \in {"idle", "done"}
    /\ h_calls < MaxHandleCalls
    /\ h_calls' = h_calls + 1
    /\ h_response' = [status |-> StatusPaymentRequired, body |-> body,
                      paymentId |-> <<0, h_calls + 1>>]
    /\ h_attempt' = 1
    /\ h_tries' = 0
    /\ h_errors' = <<>>
    /\ IF handle_loop_continues(1)
       THEN h_pc' = "try" /\ h_result' = "pending"
       ELSE h_pc' = "done" /\ h_result' = "none"
    /\ UNCHANGED <<config_max_retries, handlerVars>>
    /\ UNCHANGED outsideHandle

\* the except clause: retry with backoff, or record the failure and break
handle_exception(class, m) ==
    /\ IF should_retry(class, h_attempt)
       THEN /\ metrics' = record_retry(m)
            /\ h_attempt' = h_attempt + 1
            /\ h_errors' = Append(h_errors,
                 [class |-> class, backoff |-> backoff(h_attempt + 1)])
            /\ IF handle_loop_continues(h_attempt + 1)
               THEN h_pc' = "try" /\ h_result' = "pending"
               ELSE h_pc' = "done" /\ h_result' = "none"
       ELSE /\ metrics' = record_failure(m)
            /\ h_errors' = Append(h_errors, [class |-> class, backoff |-> 0])
            /\ h_pc' = "done"
            /\ h_result' = "none"
            /\ UNCHANGED h_attempt

\* the break statements: leave the loop and return None
handle_break(m) ==
    /\ metrics' = m
    /\ h_pc' = "done"
    /\ h_result' = "none"
    /\ UNCHANGED <<h_attempt, h_errors>>

\* one pass through the try block of handle_402_response
TryPayment(outcome, fault) ==
    /\ h_pc = "try"
    /\ h_tries' = h_tries + 1
    /\ LET params == parse_402_response(h_response)
           signed == sign_payment_authorization(params, wallet, outcome)
       IN
       IF fault.point = "parse"
       THEN /\ handle_exception(fault.class, record_attempt(metrics))
            /\ UNCHANGED receipts
       ELSE IF ~params.ok
       THEN /\ handle_break(record_attempt(metrics))
            /\ UNCHANGED receipts
       ELSE IF fault.point = "sign"
       THEN /\ handle_exception(fault.class, record_attempt(metrics))
            /\ UNCHANGED receipts
       ELSE IF signed.signature = ""
       THEN /\ handle_break(record_attempt(signed.metrics))
            /\ receipts' = signed.receipts
       ELSE IF fault.point = "header"
       THEN /\ handle_exception(fault.class, record_attempt(signed.metrics))
            /\ receipts' = signed.receipts
       ELSE /\ metrics' = record_attempt(signed.metrics)
            /\ receipts' = signed.receipts
            /\ h_pc' = "done"
            /\ h_result' = "receipt"
            /\ UNCHANGED <<h_attempt, h_errors>>
    /\ UNCHANGED <<config_max_retries, h_response, h_calls, wallet>>
    /\ UNCHANGED outsideHandle

CallHandleStep == \E body \in PaymentBodies : CallHandle(body)

TryPaymentStep ==
    \E outcome \in SignerOutcomes : \E fault \in Faults :
        TryPayment(outcome, fault)

\* ------------------------- X402PaymentHandler (first version, agent.py)
\* what wallet_manager.get_wallet_address can do
AddressAnswers == {"address", "none", "raises"}

NotSigned == [address |-> "address", complete |-> FALSE, signature |-> "unsigned"]

\* __init__: a manager without an address is replaced by FallbackWallet
InitV1(answer) ==
    /\ v1_wallet_manager = IF answer = "address" THEN "given" ELSE "fallback"
    /\ v1_last = NotSigned

\* the address the handler's wallet manager answers with; FallbackWallet
\* always has one
v1_address(answer) ==
    IF v1_wallet_manager = "fallback" THEN "address" ELSE answer

\* if not wallet_address: self.wallet_manager = FallbackWallet()
v1_manager_after(answer) ==
    IF v1_address(answer) = "none" THEN "fallback" ELSE v1_wallet_manager

\* the return value of the first-version sign_payment_authorization
v1_signature(answer, complete, outcome) ==
    IF v1_address(answer) = "raises" THEN ""
    ELSE IF ~complete THEN ""
    ELSE IF v1_manager_after(answer) = "fallback" THEN "0xmocksignature"
    ELSE IF outcome = "signature" THEN "0xSignature"
    ELSE ""

\* sign_payment_authorization of the first-version handler
SignV1(answer, complete, outcome) ==
    /\ v1_wallet_manager' =
         IF v1_address(answer) = "raises" THEN v1_wallet_manager
         ELSE v1_manager_after(answer)
    /\ v1_last' = [address |-> v1_address(answer), complete |-> complete,
                   signature |-> v1_signature(answer, complete, outcome)]
    /\ UNCHANGED outsideV1

\* the handlers are called from one thread: no signing starts while a call
\* of handle_402_response is under way
SignV1Step ==
    /\ h_pc # "try"
    /\ \E answer \in AddressAnswers : \E complete \in BOOLEAN :
          \E outcome \in SignerOutcomes : SignV1(answer, complete, outcome)

\* --------------------------- AgentLifecycleManager.appraise_item (values)
\* Amounts are exact fixed-point numbers: inputs and intermediate values in
\* units of 10^-5 dollar, final net values in units of 10^-7 dollar.
Unit5 == 100000

\* ARCHETYPE_CONFIG, multipliers in tenths
ArchetypeConfig ==
    [visionary |-> [risk_multiplier |-> 12, ugtt_bonus_multiplier |-> 11,
                    cost_sensitivity |-> 8, drift_weight |-> 13],
     investor  |-> [risk_multiplier |-> 8, ugtt_bonus_multiplier |-> 9,
                    cost_sensitivity |-> 12, drift_weight |-> 7],
     default   |-> [risk_multiplier |-> 10, ugtt_bonus_multiplier |-> 10,
                    cost_sensitivity |-> 10, drift_weight |-> 10]]

Archetypes == {"visionary", "investor", "default"}

\* get_archetype_config: an unknown archetype gets the default profile
get_archetype_config(archetype) ==
    IF archetype \in Archetypes
    THEN ArchetypeConfig[archetype]
    ELSE ArchetypeConfig["default"]

\* a value or the exception raised instead of it
Value(v) == [ok |-> TRUE, v |-> v]
Raised == [ok |-> FALSE, v |-> 0]

\* float(item_metadata.get('market_value', 0)) in dollars
market_value_of(item) ==
    IF item.market_parsable THEN Value(item.market_value) ELSE Raised

\* market_value * 0.8
fallback_value_calculation(item) ==
    IF market_value_of(item).ok
    THEN Value(market_value_of(item).v * 8 * (Unit5 \div 10))
    ELSE Raised

\* 1.5 when a word of the category is in the goal, 1.3 when a tag is in the
\* category, 1.0 otherwise (tenths)
calculate_category_interest(item) ==
    IF item.category = "in_goal" THEN 15
    ELSE IF item.category = "has_tag" THEN 13
    ELSE 10

\* condition_multipliers, tenths
get_condition_multiplier(condition) ==
    IF condition = "excellent" THEN 12
    ELSE IF condition = "very good" THEN 11
    ELSE IF condition = "fair" THEN 8
    ELSE IF condition = "poor" THEN 6
    ELSE 10

\* 1.0 + net_sentiment * 0.1 (tenths)
parse_market_context(net_sentiment) == 10 + net_sentiment

\* market value times interest, condition and market modifier; any exception
\* inside, the reality query's included, leads to the fallback calculation
hybrid_value_calculation(item, reality) ==
    IF reality.kind = "raises" \/ ~market_value_of(item).ok
    THEN fallback_value_calculation(item)
    ELSE Value(market_value_of(item).v * calculate_category_interest(item)
               * get_condition_multiplier(item.condition)
               * parse_market_context(reality.net_sentiment)
               * (Unit5 \div 1000))

\* the first number of the LLM's answer, else the hybrid calculation
llm_value_calculation(item, llm, reality) ==
    IF llm.kind \in {"absent", "raises", "no_number"}
    THEN hybrid_value_calculation(item, reality)
    ELSE Value(llm.number * Unit5)

\* enable_llm_reasoning is True in LLM_CONFIG; an exception that escapes is
\* answered by the fallback calculation
calculate_base_subjective_value(item, llm, reality) ==
    IF llm_value_calculation(item, llm, reality).ok
    THEN llm_value_calculation(item, llm, reality)
    ELSE fallback_value_calculation(item)

\* trend of the last three final net values, scaled by 0.1, once more than
\* three appraisals are in the history (the quotient is rounded down)
calculate_drift_adjustment(history) ==
    IF Len(history) > 3
    THEN ((history[Len(history)].final_net_value
           - history[Len(history) - 2].final_net_value) \div 3) \div 1000
    ELSE 0

\* overlaps of the item's description with the agent's goal and values and
\* with the target's goal, given in halves; scaled to 0..20 dollars
calculate_goal_alignment(item, with_target) ==
    IF with_target
    THEN (item.goal_overlap + item.value_overlap) * (Unit5 \div 4) * 10
         + item.target_overlap * (Unit5 \div 2) * 10
    ELSE (item.goal_overlap + item.value_overlap) * (Unit5 \div 4) * 20

\* strategy_bonuses
strategy_bonus(strategy) ==
    IF strategy = "cooperative" THEN 5
    ELSE IF strategy = "competitive" THEN 3
    ELSE IF strategy = "aggressive" THEN 0 - 2
    ELSE 0

\* confidence * 10 + strategy bonus, 0 when the strategy module fails;
\* confidence in tenths
calculate_ugtt_bonus(ugtt) ==
    IF ugtt.kind = "raises"
    THEN 0
    ELSE (ugtt.confidence + strategy_bonus(ugtt.strategy)) * Unit5

\* calculate_base_costs: gas 0.0001 + x402 fee 0.001
TotalBaseCost == 110

\* coalition_profit_share 0.05
CoalitionProfitShare == 5000

\* pitch_cost_usd 0.01
PitchCostUsd == 1000

\* pitch_cost_xp 5
PitchCostXp == 5

\* premium_pitch_threshold 10
PremiumPitchThreshold == 10

calculate_total_costs(enable_pitch, context, xp) ==
    [pitch_cost_xp |->
        IF enable_pitch /\ xp >= PremiumPitchThreshold THEN PitchCostXp ELSE 0,
     pitch_cost_usd |->
        IF enable_pitch /\ xp < PremiumPitchThreshold THEN PitchCostUsd ELSE 0,
     total_cost_usd |->
        TotalBaseCost
        + (IF context = "coalition" THEN CoalitionProfitShare ELSE 0)
        + (IF enable_pitch /\ xp < PremiumPitchThreshold
           THEN PitchCostUsd ELSE 0)]

\* alignment_weight 0.3 (tenths)
AlignmentWeight == 3

\* mutant: the visionary branch forgets the strategy bonus
apply_archetype_logic_without_bonus(archetype, base_value, drift_adjustment, alignment_score, ugtt_bonus, total_cost_usd) ==
    LET config == get_archetype_config(archetype)
        adjusted_base == base_value
                         + (drift_adjustment * config.drift_weight) \div 10
                         + (alignment_score * AlignmentWeight) \div 10
        ugtt_contribution == (ugtt_bonus * config.ugtt_bonus_multiplier) \div 10
        total_costs == (total_cost_usd * config.cost_sensitivity) \div 10
    IN
    IF archetype = "visionary"
    THEN adjusted_base * config.risk_multiplier * 10 - total_costs * 100
    ELSE IF archetype = "investor"
    THEN (adjusted_base - total_costs)
         * (100 + ugtt_contribution \div (Unit5 \div 10))
    ELSE (adjusted_base + ugtt_contribution - total_costs) * 100

\* final net value in units of 10^-7 dollar
apply_archetype_logic(archetype, base_value, drift_adjustment, alignment_score, ugtt_bonus, total_cost_usd) ==
    LET config == get_archetype_config(archetype)
        adjusted_base == base_value
                         + (drift_adjustment * config.drift_weight) \div 10
                         + (alignment_score * AlignmentWeight) \div 10
        ugtt_contribution == (ugtt_bonus * config.ugtt_bonus_multiplier) \div 10
        total_costs == (total_cost_usd * config.cost_sensitivity) \div 10
    IN
    IF archetype = "visionary"
    THEN (adjusted_base + ugtt_contribution) * config.risk_multiplier * 10
         - total_costs * 100
    ELSE IF archetype = "investor"
    THEN (adjusted_base - total_costs)
         * (100 + ugtt_contribution \div (Unit5 \div 10))
    ELSE (adjusted_base + ugtt_contribution - total_costs) * 100

\* ------------------------------- _apply_archetype_logic, profile by profile
\* the arguments of one comparison: whole dollars for the base value, the
\* drift and the strategy bonus (either may be negative), for the alignment
\* score, and the costs _calculate_total_costs can return
LogicInputs ==
    [base_value : {d * Unit5 : d \in (0 - MaxDollars)..MaxDollars},
     drift_adjustment : {d * Unit5 : d \in (0 - MaxDollars)..MaxDollars},
     alignment_score : {d * Unit5 : d \in 0..MaxDollars},
     ugtt_bonus : {d * Unit5 : d \in (0 - 1)..MaxDollars},
     total_cost_usd : {TotalBaseCost, TotalBaseCost + PitchCostUsd}]

NoLogicInputs ==
    [base_value |-> 0, drift_adjustment |-> 0, alignment_score |-> 0,
     ugtt_bonus |-> 0, total_cost_usd |-> 0]

InitArchetype(inputs) ==
    /\ logic_inputs = inputs
    /\ final_values = [archetype \in Archetypes |-> Raised]

\* one call of _apply_archetype_logic on an object of the given archetype
ApplyArchetypeLogic(archetype) ==
    /\ ~final_values[archetype].ok
    /\ final_values' =
         [final_values EXCEPT ![archetype] =
            Value(apply_archetype_logic(
                      archetype, logic_inputs.base_value,
                      logic_inputs.drift_adjustment,
                      logic_inputs.alignment_score, logic_inputs.ugtt_bonus,
                      logic_inputs.total_cost_usd))]
    /\ UNCHANGED logic_inputs
    /\ UNCHANGED outsideArchetype

ApplyArchetypeStep == \E archetype \in Archetypes : ApplyArchetypeLogic(archetype)

\* ------------------------------------- appraise_item as negotiation calls it
\* the objects handed in as initiator or evaluator: an Agent, whose own
\* appraise_item takes (item_data, archetype, llm); an AgentLifecycleManager
\* as its constructor leaves it, holding nothing but self.agent; and an
\* object that has the appraisal methods together with the agent's
\* attributes and collaborators
AgentKinds == {"agent", "manager", "equipped"}

\* the items appraised
Items ==
    {[market_parsable |-> TRUE, market_value |-> 10, category |-> "in_goal",
      condition |-> "excellent", goal_overlap |-> 2, value_overlap |-> 0,
      target_overlap |-> 1],
     [market_parsable |-> TRUE, market_value |-> 0, category |-> "other",
      condition |-> "poor", goal_overlap |-> 0, value_overlap |-> 0,
      target_overlap |-> 0],
     [market_parsable |-> FALSE, market_value |-> 0, category |-> "has_tag",
      condition |-> "good", goal_overlap |-> 1, value_overlap |-> 1,
      target_overlap |-> 0]}

\* what the LLM, the reality query and the strategy module do in one appraisal
Collaborators ==
    {[llm |-> [kind |-> "raises", number |-> 0],
      reality |-> [kind |-> "raises", net_sentiment |-> 0],
      ugtt |-> [kind |-> "raises", confidence |-> 0, strategy |-> "neutral"]],
     [llm |-> [kind |-> "number", number |-> 50],
      reality |-> [kind |-> "answer", net_sentiment |-> 1],
      ugtt |-> [kind |-> "result", confidence |-> 5,
                strategy |-> "cooperative"]],
     [llm |-> [kind |-> "no_number", number |-> 0],
      reality |-> [kind |-> "answer", net_sentiment |-> 0 - 1],
      ugtt |-> [kind |-> "result", confidence |-> 0,
                strategy |-> "aggressive"]]}

Contexts == {"trade", "coalition"}

XpLevels == {0, PremiumPitchThreshold}

\* the result of one appraise_item call: whether the call itself raised, the
\* decision, the final net value and the costs of the result dict, whether
\* the dict carries the keys of a completed appraisal, and whether the
\* appraisal drew a correlation id
AppraisalRaised ==
    [raised |-> TRUE, decision |-> "none", final_net_value |-> 0,
     total_cost_usd |-> 0, complete |-> FALSE, drew_id |-> FALSE]

AppraisalError ==
    [raised |-> FALSE, decision |-> "error", final_net_value |-> 0,
     total_cost_usd |-> 0, complete |-> FALSE, drew_id |-> TRUE]

\* the final net value of a completed appraisal
appraised_value(archetype, history, item, collaborators, context, with_target, enable_pitch, xp) ==
    apply_archetype_logic(
        archetype,
        calculate_base_subjective_value(item, collaborators.llm,
                                        collaborators.reality).v,
        calculate_drift_adjustment(history),
        calculate_goal_alignment(item, with_target),
        calculate_ugtt_bonus(collaborators.ugtt),
        calculate_total_costs(enable_pitch, context, xp).total_cost_usd)

\* "accept" if final_value > 0 else "reject"
decision_of(final_value) == IF final_value > 0 THEN "accept" ELSE "reject"

\* appraise_item(item_metadata, context, target_capsule, enable_pitch) on an
\* object of the given kind
appraise_item(kind, archetype, history, item, collaborators, context, with_target, enable_pitch, xp) ==
    IF kind = "agent"
    THEN AppraisalRaised
    ELSE IF kind = "manager"
    THEN AppraisalError
    ELSE IF ~calculate_base_subjective_value(item, collaborators.llm,
                                             collaborators.reality).ok
    THEN AppraisalError
    ELSE LET final_value ==
                 appraised_value(archetype, history, item, collaborators,
                                 context, with_target, enable_pitch, xp)
         IN [raised |-> FALSE, decision |-> decision_of(final_value),
             final_net_value |-> final_value,
             total_cost_usd |->
                 calculate_total_costs(enable_pitch, context,
                                       xp).total_cost_usd,
             complete |-> TRUE, drew_id |-> TRUE]

\* --------------------------- NegotiationModule: negotiation with appraisal
\* probabilities in units of 10^-9
ProbUnit == 1000000000

\* trade_accepted = acceptance_probability > 0.5
AcceptanceThreshold == 500000000

\* return 0.3 of the except clause
DefaultProbability == 300000000

\* the methods NegotiationModule defines
NegotiationModuleMethods ==
    {"propose_split", "propose_trade_with_pitch",
     "propose_coalition_with_pitch", "_get_agent_capsule",
     "_calculate_acceptance_probability", "_calculate_capsule_alignment",
     "_log_trade_proposal", "_log_coalition_proposal", "_log_pitch_reception",
     "negotiate_trade_with_appraisal", "evaluate_proposal_with_appraisal",
     "_calculate_acceptance_probability_with_appraisal",
     "_log_trade_with_appraisal", "_log_proposal_evaluation",
     "get_trade_history", "get_agent_trade_stats"}

\* goal, value-key and tag similarity of two capsules, each in halves
CapsulePairs ==
    {[goal_similarity |-> 2, value_similarity |-> 2, tag_similarity |-> 2],
     [goal_similarity |-> 1, value_similarity |-> 0, tag_similarity |-> 1]}

\* _calculate_capsule_alignment: 0.5 goal + 0.3 values + 0.2 tags
calculate_capsule_alignment(capsules) ==
    (5 * capsules.goal_similarity + 3 * capsules.value_similarity
     + 2 * capsules.tag_similarity) * (ProbUnit \div 20)

NoPitch == [made |-> FALSE, cost |-> 0, method |-> "none", correlation_id |-> 0]

\* 0.1 for a pitch that cost nothing, 0.2 for one that cost something
pitch_factor(pitch) ==
    IF pitch.made /\ pitch.cost = 0 THEN ProbUnit \div 10
    ELSE IF pitch.made /\ pitch.cost > 0 THEN 2 * (ProbUnit \div 10)
    ELSE 0

\* min(final_net_value / 100, 1.0)
appraisal_factor(final_net_value) ==
    IF final_net_value >= ProbUnit THEN ProbUnit ELSE final_net_value

\* base_alignment * 0.6 + appraisal_factor * 0.3 + pitch_factor in [0, 1]
combined_probability(capsules, final_net_value, pitch) ==
    Max2(0, Min2(ProbUnit,
        (calculate_capsule_alignment(capsules) \div 10) * 6
        + (appraisal_factor(final_net_value) \div 10) * 3
        + pitch_factor(pitch)))

\* the try block calls self.calculate_capsule_alignment, which the class does
\* not define: the AttributeError is caught and 0.3 returned
calculate_acceptance_probability_with_appraisal(capsules, final_net_value, pitch) ==
    IF "calculate_capsule_alignment" \in NegotiationModuleMethods
    THEN combined_probability(capsules, final_net_value, pitch)
    ELSE DefaultProbability

\* mutant: the default probability is enough
trade_accepted_at_default(acceptance_probability) ==
    acceptance_probability >= DefaultProbability

\* acceptance_probability > 0.5
trade_accepted(acceptance_probability) ==
    acceptance_probability > AcceptanceThreshold

\* how _deduct_pitch_cost ends: paid through the payment handler, charged in
\* XP (deducted or refused, at the same cost), or free when no payment system
\* is there
PitchPayments ==
    {[method |-> "USDC", cost |-> PitchCostUsd],
     [method |-> "XP", cost |-> PitchCostXp],
     [method |-> "FREE", cost |-> 0]}

\* the agents that have an AgentMemory in agent_memories
MemoryHolders == {{}, {"initiator"}, {"initiator", "target"}}

\* no pair of capsules was compared
NoCapsules ==
    [goal_similarity |-> 0, value_similarity |-> 0, tag_similarity |-> 0]

\* what the last call returned, with the capsules its probability was to be
\* computed from
NoTrade ==
    [op |-> "none", correlation_id |-> 0, trade_result |-> "none",
     decision |-> "none", final_net_value |-> 0, capsules |-> NoCapsules,
     acceptance_probability |-> 0, pitch |-> NoPitch, nft_minted |-> 0]

InitTrade(kind, archetype, memories) ==
    /\ setup = [kind |-> kind, archetype |-> archetype, memories |-> memories]
    /\ appraisal_history = <<>>
    /\ events = <<>>
    /\ trade_history = <<>>
    /\ current_owned_nfts = <<>>
    /\ pitches = <<>>
    /\ uuids = 0
    /\ last_trade = NoTrade
    /\ trade_calls = 0

\* log_event on the memory of an agent, if agent_memories holds one
log_event(log, holder, event_type, correlation_id) ==
    IF holder \in setup.memories
    THEN Append(log, [memory |-> holder, event_type |-> event_type,
                      correlation_id |-> correlation_id])
    ELSE log

\* appraisal_history.append(appraisal_result) of a completed appraisal
history_after(appraisal) ==
    IF appraisal.complete
    THEN Append(appraisal_history,
                [decision |-> appraisal.decision,
                 final_net_value |-> appraisal.final_net_value])
    ELSE appraisal_history

\* the uuid4 values drawn by the call and by the appraisal inside it
ids_after_appraisal(appraisal) == uuids + (IF appraisal.drew_id THEN 2 ELSE 1)

\* what a negotiation or evaluation that ended in its except clause returns
trade_error(op, appraisal) ==
    [op |-> op, correlation_id |-> uuids + 1, trade_result |-> "error",
     decision |-> IF op = "evaluate" THEN "error" ELSE appraisal.decision,
     final_net_value |-> 0, capsules |-> NoCapsules,
     acceptance_probability |-> 0, pitch |-> NoPitch, nft_minted |-> 0]

\* generate_persuasion_pitch: the pitch and what _deduct_pitch_cost charged
generate_persuasion_pitch(payment, correlation_id) ==
    [made |-> TRUE, cost |-> payment.cost, method |-> payment.method,
     correlation_id |-> correlation_id]

\* negotiate_trade_with_appraisal(initiator_agent, target_capsule,
\* item_metadata, context, enable_verbal_exchange)
negotiate_trade_with_appraisal(item, collaborators, capsules, context, enable_verbal_exchange, xp, payment) ==
    LET appraisal == appraise_item(setup.kind, setup.archetype,
                                   appraisal_history, item, collaborators,
                                   context, TRUE, enable_verbal_exchange, xp)
        correlation_id == uuids + 1
        ids == ids_after_appraisal(appraisal)
        pitch == IF enable_verbal_exchange
                 THEN generate_persuasion_pitch(payment, ids + 1)
                 ELSE NoPitch
        ids_pitched == IF enable_verbal_exchange THEN ids + 1 ELSE ids
        received == IF enable_verbal_exchange
                    THEN log_event(events, "target",
                                   "persuasion_pitch_received", correlation_id)
                    ELSE events
        probability == calculate_acceptance_probability_with_appraisal(
                           capsules, appraisal.final_net_value, pitch)
        accepted == trade_accepted(probability)
        outcome == [op |-> "negotiate", correlation_id |-> correlation_id,
                    trade_result |-> IF accepted THEN "accepted" ELSE "rejected",
                    decision |-> appraisal.decision,
                    final_net_value |-> appraisal.final_net_value,
                    capsules |-> capsules,
                    acceptance_probability |-> probability, pitch |-> pitch,
                    nft_minted |-> IF accepted THEN ids_pitched + 1 ELSE 0]
    IN
    /\ trade_calls < MaxTradeCalls
    /\ trade_calls' = trade_calls + 1
    /\ appraisal_history' = history_after(appraisal)
    /\ IF appraisal.raised \/ ~appraisal.complete
       THEN \* the call raised, or the log line reads the missing 'reasoning'
            /\ last_trade' = trade_error("negotiate", appraisal)
            /\ uuids' = ids
            /\ UNCHANGED <<events, trade_history, current_owned_nfts, pitches>>
       ELSE IF appraisal.decision # "accept"
       THEN /\ last_trade' =
                 [op |-> "negotiate", correlation_id |-> correlation_id,
                  trade_result |-> "rejected_by_initiator",
                  decision |-> appraisal.decision,
                  final_net_value |-> appraisal.final_net_value,
                  capsules |-> NoCapsules,
                  acceptance_probability |-> 0, pitch |-> NoPitch,
                  nft_minted |-> 0]
            /\ uuids' = ids
            /\ UNCHANGED <<events, trade_history, current_owned_nfts, pitches>>
       ELSE /\ last_trade' = outcome
            /\ pitches' = IF enable_verbal_exchange
                          THEN Append(pitches, pitch) ELSE pitches
            /\ current_owned_nfts' =
                 IF accepted
                 THEN Append(current_owned_nfts, ids_pitched + 1)
                 ELSE current_owned_nfts
            /\ uuids' = IF accepted THEN ids_pitched + 1 ELSE ids_pitched
            /\ events' =
                 log_event(log_event(received, "initiator",
                                     "trade_negotiation_completed",
                                     correlation_id),
                           "target", "trade_proposal_received", correlation_id)
            /\ trade_history' = Append(trade_history, outcome)
    /\ UNCHANGED setup
    /\ UNCHANGED outsideTrade

\* evaluate_proposal_with_appraisal(evaluator_agent, proposal)
evaluate_proposal_with_appraisal(item, collaborators, context, xp) ==
    LET appraisal == appraise_item(setup.kind, setup.archetype,
                                   appraisal_history, item, collaborators,
                                   context, FALSE, FALSE, xp)
        correlation_id == uuids + 1
    IN
    /\ trade_calls < MaxTradeCalls
    /\ trade_calls' = trade_calls + 1
    /\ appraisal_history' = history_after(appraisal)
    /\ uuids' = ids_after_appraisal(appraisal)
    /\ IF appraisal.raised \/ ~appraisal.complete
       THEN \* the call raised, or the result dict reads the missing 'reasoning'
            /\ last_trade' = trade_error("evaluate", appraisal)
            /\ UNCHANGED events
       ELSE /\ last_trade' =
                 [op |-> "evaluate", correlation_id |-> correlation_id,
                  trade_result |-> "none", decision |-> appraisal.decision,
                  final_net_value |-> appraisal.final_net_value,
                  capsules |-> NoCapsules,
                  acceptance_probability |-> 0, pitch |-> NoPitch,
                  nft_minted |-> 0]
            /\ events' = log_event(events, "initiator", "proposal_evaluated",
                                   correlation_id)
    /\ UNCHANGED <<setup, trade_history, current_owned_nfts, pitches>>
    /\ UNCHANGED outsideTrade

\* the agent's XP and the way its pitch is paid are read only when a pitch
\* is enabled
NegotiateStep ==
    \E item \in Items : \E collaborators \in Collaborators :
        \E capsules \in CapsulePairs : \E context \in Contexts :
            \/ \E xp \in XpLevels : \E payment \in PitchPayments :
                   negotiate_trade_with_appraisal(
                       item, collaborators, capsules, context, TRUE, xp,
                       payment)
            \/ negotiate_trade_with_appraisal(
                   item, collaborators, capsules, context, FALSE, 0,
                   [method |-> "FREE", cost |-> 0])

EvaluateStep ==
    \E item \in Items : \E collaborators \in Collaborators :
        \E context \in Contexts :
            evaluate_proposal_with_appraisal(item, collaborators, context, 0)

\* ------------------------ GenesisSelfModificationRequest.propose_modification
\* the capsules in the registry, and an id the registry does not hold
CapsuleIds == {"test_capsule"}
RequestedIds == CapsuleIds \cup {"nonexistent"}

\* attributes a Capsule object has
CapsuleAttributes ==
    {"capsule_id", "goal", "values", "tags", "wallet_address", "public_snippet"}

\* ALLOWED_FIELDS of _validate_modification
AllowedFields == {"values", "tags", "goal", "archetype"}

\* the keys a modification dict may carry
ModificationFields == {"goal", "values", "tags", "archetype", "wallet_address"}
Modifications == SUBSET ModificationFields

\* AgentMemory, whose add_trade_record takes (agent_id, trade_record), or a
\* memory whose add_trade_record accepts the keywords reevaluate_capsule passes
MemoryKinds == {"AgentMemory", "accepting"}

\* what the LLM's alignment score comes to, when live_mode asks for it
AlignmentScores == {"low", "high"}

\* the capsule as it was created
OriginalCapsule ==
    [goal |-> "old",
     values |-> [content |-> "old", motivation_score |-> 0],
     tags |-> [content |-> "old", reevaluated |-> FALSE]]

\* the outcome of a call, with the arguments it was made with
NotCalled ==
    [raised |-> FALSE, status |-> "none", reason |-> FALSE,
     capsule_id |-> "none", modification |-> {}]

ModRaised(capsule_id, modification) ==
    [raised |-> TRUE, status |-> "none", reason |-> FALSE,
     capsule_id |-> capsule_id, modification |-> modification]

ModReturned(status, reason, capsule_id, modification) ==
    [raised |-> FALSE, status |-> status, reason |-> reason,
     capsule_id |-> capsule_id, modification |-> modification]

InitModification(memory, live_mode) ==
    /\ mod_setup = [memory |-> memory, live_mode |-> live_mode]
    /\ registry_capsules = [id \in CapsuleIds |-> OriginalCapsule]
    /\ audit_trail = <<>>
    /\ last_mod = NotCalled
    /\ mod_calls = 0

\* add_trade_record(agent_id=..., trade_item=..., outcome=..., capsule_data=...)
add_trade_record_raises == mod_setup.memory = "AgentMemory"

\* _validate_modification: "raises" when a proposed field is outside the
\* allowed ones (the set difference with the list ALLOWED_FIELDS), "low" when
\* the alignment check of live mode scores under 0.3, "valid" otherwise
validate_modification(modification, score) ==
    IF ~(modification \subseteq AllowedFields) THEN "raises"
    ELSE IF mod_setup.live_mode /\ score = "low" THEN "low"
    ELSE "valid"

\* setattr(capsule, field, value) for the fields the capsule has
with_fields(capsule, modification) ==
    LET set == modification \cap CapsuleAttributes
    IN [goal |-> IF "goal" \in set THEN "new" ELSE capsule.goal,
        values |-> IF "values" \in set
                   THEN [content |-> "new", motivation_score |-> 0]
                   ELSE capsule.values,
        tags |-> IF "tags" \in set
                 THEN [content |-> "new", reevaluated |-> FALSE]
                 ELSE capsule.tags]

\* reevaluate_capsule up to its add_trade_record call: the tag "reevaluated"
\* is appended and the motivation score goes up by one
reevaluated_capsule(capsule) ==
    [capsule EXCEPT !.tags.reevaluated = TRUE,
                    !.values.motivation_score = @ + 1]

\* _log_modification_event: audit_trail.append(event)
log_modification_event(event_type) ==
    Append(audit_trail, "self_modification_" \o event_type)

\* propose_modification(capsule_id, modification, agent_id)
propose_modification(capsule_id, modification, score) ==
    /\ mod_calls < MaxModCalls
    /\ mod_calls' = mod_calls + 1
    /\ UNCHANGED mod_setup
    /\ IF capsule_id \notin DOMAIN registry_capsules
       THEN /\ last_mod' = ModReturned("error", TRUE, capsule_id,
                                        modification)
            /\ audit_trail' = log_modification_event("error")
            /\ UNCHANGED registry_capsules
       ELSE IF validate_modification(modification, score) = "raises"
       THEN /\ last_mod' = ModRaised(capsule_id, modification)
            /\ UNCHANGED <<registry_capsules, audit_trail>>
       ELSE IF validate_modification(modification, score) = "low"
       THEN /\ last_mod' = ModReturned("rejected", TRUE, capsule_id,
                                        modification)
            /\ audit_trail' = log_modification_event("rejected")
            /\ UNCHANGED registry_capsules
       ELSE \* the capsule object is the one the registry holds
            /\ registry_capsules' =
                 [registry_capsules EXCEPT ![capsule_id] =
                    reevaluated_capsule(with_fields(@, modification))]
            /\ IF add_trade_record_raises
               THEN /\ last_mod' = ModReturned("error", TRUE, capsule_id,
                                        modification)
                    /\ audit_trail' = log_modification_event("error")
               ELSE /\ last_mod' = ModReturned("approved", FALSE, capsule_id,
                                        modification)
                    /\ audit_trail' = log_modification_event("approved")
    /\ UNCHANGED outsideModification

ProposeModificationStep ==
    \E capsule_id \in RequestedIds : \E modification \in Modifications :
        \E score \in AlignmentScores :
            propose_modification(capsule_id, modification, score)

\* ------------------------------------------- world_dynamics: black swan engine
\* event_types of inject_chaotic_event
EventTypes ==
    {"trade_freeze", "reputational_collapse", "false_memory_insertion",
     "symbolic_agent_death"}

\* the manual_event argument: None, an event type, or some other string
ManualEvents == EventTypes \cup {"None", "invalid_event"}

\* return value None
NoEventId == 0

NoSwanCall ==
    [op |-> "none", manual_event |-> "None", effects_raised |-> FALSE,
     returned |-> NoEventId]

InitWorld ==
    /\ chaos_pack = TRUE
    /\ black_swan_enabled = TRUE
    /\ applied_events = <<>>
    /\ event_ids = 0
    /\ last_swan = NoSwanCall
    /\ swan_calls = 0

\* mutant: the circuit breaker is not consulted
injection_allowed_ignoring_breaker(pack, enabled) == pack

\* the two early returns of inject_chaotic_event
injection_allowed(pack, enabled) == pack /\ enabled

disable_black_swan_engine ==
    /\ black_swan_enabled' = FALSE
    /\ last_swan' = [NoSwanCall EXCEPT !.op = "disable"]
    /\ UNCHANGED <<chaos_pack, applied_events, event_ids, swan_calls>>
    /\ UNCHANGED outsideWorld

enable_black_swan_engine ==
    /\ black_swan_enabled' = TRUE
    /\ last_swan' = [NoSwanCall EXCEPT !.op = "enable"]
    /\ UNCHANGED <<chaos_pack, applied_events, event_ids, swan_calls>>
    /\ UNCHANGED outsideWorld

\* EXPERIMENTAL_FEATURES["chaos_pack"] = flag, set from outside
set_chaos_pack(flag) ==
    /\ chaos_pack # flag
    /\ chaos_pack' = flag
    /\ last_swan' = [NoSwanCall EXCEPT !.op = "flag"]
    /\ UNCHANGED <<black_swan_enabled, applied_events, event_ids, swan_calls>>
    /\ UNCHANGED outsideWorld

\* inject_chaotic_event(manual_event); event is the type random.choice picks
\* when no manual event is given, effects_raise whether apply_event_effects
\* raises
inject_chaotic_event(manual_event, event, effects_raise) ==
    LET call(raised, returned) ==
            [op |-> "inject", manual_event |-> manual_event,
             effects_raised |-> raised, returned |-> returned]
    IN
    /\ swan_calls < MaxSwanCalls
    /\ swan_calls' = swan_calls + 1
    /\ manual_event # "None" => event = manual_event
    /\ UNCHANGED chaos_pack
    /\ IF ~injection_allowed(chaos_pack, black_swan_enabled)
       THEN /\ last_swan' = call(FALSE, NoEventId)
            /\ UNCHANGED <<black_swan_enabled, applied_events, event_ids>>
       ELSE IF manual_event # "None" /\ manual_event \notin EventTypes
       THEN /\ last_swan' = call(FALSE, NoEventId)
            /\ event_ids' = event_ids + 1
            /\ UNCHANGED <<black_swan_enabled, applied_events>>
       ELSE IF effects_raise
       THEN /\ last_swan' = call(TRUE, NoEventId)
            /\ event_ids' = event_ids + 1
            /\ black_swan_enabled' = FALSE
            /\ UNCHANGED applied_events
       ELSE /\ last_swan' = call(FALSE, event_ids + 1)
            /\ event_ids' = event_ids + 1
            /\ applied_events' =
                 Append(applied_events,
                        [event |-> event, event_id |-> event_ids + 1])
            /\ UNCHANGED black_swan_enabled
    /\ UNCHANGED outsideWorld

InjectStep ==
    \E manual_event \in ManualEvents : \E event \in ManualEvents \ {"None"} :
        \E effects_raise \in BOOLEAN :
            inject_chaotic_event(manual_event, event, effects_raise)

DisableStep == disable_black_swan_engine
EnableStep == enable_black_swan_engine
FlagStep == \E flag \in BOOLEAN : set_chaos_pack(flag)

\* ----------------------------------- AnonymousBroadcastHall.post_dream
Threads == 1..NumThreads
Posters == 1..NumPosters

\* time.time() when the hall is created: far more than one interval after
\* the epoch
StartTime == PostInterval
EndTime == StartTime + MaxTicks

NoThread == 0

InitHall ==
    /\ hall_chaos_pack = TRUE
    /\ clock = StartTime
    /\ hall_lock = NoThread
    /\ dreams = <<>>
    /\ last_post_time = [agent \in {} |-> 0]
    /\ t_pc = [t \in Threads |-> "idle"]
    /\ t_agent = [t \in Threads |-> 1]
    /\ t_now = [t \in Threads |-> 0]
    /\ t_stamp = [t \in Threads |-> 0]
    /\ t_outcome = [t \in Threads |-> "none"]
    /\ accepted_posts = <<>>
    /\ post_calls = 0

\* mutant: the lock is entered whoever holds it
lock_free_always(holder) == TRUE

\* with self._lock: the lock can be taken when nobody holds it
lock_free(holder) == holder = NoThread

\* self._last_post_time.get(agent_id, 0)
last_post_of(agent_id) ==
    IF agent_id \in DOMAIN last_post_time THEN last_post_time[agent_id] ELSE 0

\* can_post: now - last_post >= self._post_interval_seconds
can_post(now, last_post) == now - last_post >= PostInterval

\* the clock moves on between any two steps
Tick ==
    /\ clock < EndTime
    /\ clock' = clock + 1
    /\ UNCHANGED <<hall_chaos_pack, hall_lock, dreams, last_post_time, t_pc,
                   t_agent, t_now, t_stamp, t_outcome, accepted_posts, post_calls>>
    /\ UNCHANGED outsideHall

\* EXPERIMENTAL_FEATURES["chaos_pack"] = flag, set from outside
set_hall_flag(flag) ==
    /\ hall_chaos_pack # flag
    /\ hall_chaos_pack' = flag
    /\ UNCHANGED <<clock, hall_lock, dreams, last_post_time, t_pc, t_agent,
                   t_now, t_stamp, t_outcome, accepted_posts, post_calls>>
    /\ UNCHANGED outsideHall

\* post_dream(text, agent_id) is entered: the feature flag is read
post_dream_begin(t, agent_id) ==
    /\ t_pc[t] = "idle"
    /\ post_calls < MaxPostCalls
    /\ post_calls' = post_calls + 1
    /\ t_agent' = [t_agent EXCEPT ![t] = agent_id]
    /\ IF hall_chaos_pack
       THEN /\ t_pc' = [t_pc EXCEPT ![t] = "lock"]
            /\ t_outcome' = [t_outcome EXCEPT ![t] = "running"]
       ELSE /\ t_pc' = [t_pc EXCEPT ![t] = "idle"]
            /\ t_outcome' = [t_outcome EXCEPT ![t] = "ignored"]
    /\ UNCHANGED <<hall_chaos_pack, clock, hall_lock, dreams, last_post_time,
                   t_now, t_stamp, accepted_posts>>
    /\ UNCHANGED outsideHall

\* with self._lock:
post_dream_acquire(t) ==
    /\ t_pc[t] = "lock"
    /\ lock_free(hall_lock)
    /\ hall_lock' = t
    /\ t_pc' = [t_pc EXCEPT ![t] = "check"]
    /\ UNCHANGED <<hall_chaos_pack, clock, dreams, last_post_time, t_agent,
                   t_now, t_stamp, t_outcome, accepted_posts, post_calls>>
    /\ UNCHANGED outsideHall

\* if not self.can_post(agent_id): raise PostingFrequencyLimitExceeded
post_dream_check(t) ==
    /\ t_pc[t] = "check"
    /\ t_now' = [t_now EXCEPT ![t] = clock]
    /\ IF can_post(clock, last_post_of(t_agent[t]))
       THEN /\ t_pc' = [t_pc EXCEPT ![t] = "append"]
            /\ UNCHANGED <<hall_lock, t_outcome>>
       ELSE /\ t_pc' = [t_pc EXCEPT ![t] = "idle"]
            /\ t_outcome' = [t_outcome EXCEPT ![t] = "raised"]
            /\ hall_lock' = IF hall_lock = t THEN NoThread ELSE hall_lock
    /\ UNCHANGED <<hall_chaos_pack, clock, dreams, last_post_time, t_agent,
                   t_stamp, accepted_posts, post_calls>>
    /\ UNCHANGED outsideHall

\* self._dreams.append({"text": text, "timestamp": time.time()})
post_dream_append(t) ==
    /\ t_pc[t] = "append"
    /\ dreams' = Append(dreams, clock)
    /\ t_stamp' = [t_stamp EXCEPT ![t] = clock]
    /\ t_pc' = [t_pc EXCEPT ![t] = "record"]
    /\ UNCHANGED <<hall_chaos_pack, clock, hall_lock, last_post_time, t_agent,
                   t_now, t_outcome, accepted_posts, post_calls>>
    /\ UNCHANGED outsideHall

\* self._last_post_time[agent_id] = time.time(), and the lock is released
post_dream_record(t) ==
    /\ t_pc[t] = "record"
    /\ last_post_time' =
         [agent \in DOMAIN last_post_time \cup {t_agent[t]} |->
            IF agent = t_agent[t] THEN clock ELSE last_post_time[agent]]
    /\ accepted_posts' = Append(accepted_posts, [agent_id |-> t_agent[t],
                                     checked |-> t_now[t],
                                     timestamp |-> t_stamp[t],
                                     recorded |-> clock])
    /\ hall_lock' = IF hall_lock = t THEN NoThread ELSE hall_lock
    /\ t_pc' = [t_pc EXCEPT ![t] = "idle"]
    /\ t_outcome' = [t_outcome EXCEPT ![t] = "posted"]
    /\ UNCHANGED <<hall_chaos_pack, clock, dreams, t_agent, t_now, t_stamp,
                   post_calls>>
    /\ UNCHANGED outsideHall

TickStep == Tick
HallFlagStep == \E flag \in BOOLEAN : set_hall_flag(flag)
BeginPostStep ==
    \E t \in Threads : \E agent_id \in Posters : post_dream_begin(t, agent_id)
AcquireStep == \E t \in Threads : post_dream_acquire(t)
CheckStep == \E t \in Threads : post_dream_check(t)
AppendStep == \E t \in Threads : post_dream_append(t)
RecordStep == \E t \in Threads : post_dream_record(t)

\* the candidate lists a caller passes: the initiator alone, the initiator's
\* own id, and the 1..MaxCandidates agents that follow the initiator
CandidateLists(a) ==
    {{}, {a}} \cup {(a + 1 .. a + k) \cap Agents : k \in 1..MaxCandidates}

\* random.uniform is drawn only after the two early returns
DrawnPayoffs(members, draws) ==
    IF propose_rejected(members) THEN {0} ELSE draws

ProposeStep ==
    /\ \E a \in Agents : \E cands \in CandidateLists(a) :
          LET members == proposal_members(a, cands) IN
          \E pay \in DrawnPayoffs(members, LowPayoffs(members)) :
              propose_coalition(a, cands, pay)
    /\ UNCHANGED outsideLedger

SplitProposeStep ==
    /\ \E a \in Agents : \E cands \in CandidateLists(a) :
          LET members == proposal_members(a, cands) IN
          \E pay \in DrawnPayoffs(members, PooledPayoffs(members)) :
              propose_coalition(a, cands, pay)
    /\ UNCHANGED outsideLedger

AcceptStep ==
    /\ \E i \in DOMAIN proposals : accept_coalition(i)
    /\ UNCHANGED outsideLedger

DissolveStep ==
    /\ \E c \in CoalitionIds : dissolve_coalition(c)
    /\ UNCHANGED outsideLedger

LeaveStep ==
    /\ \E a \in Agents : \E th \in PayoffThresholds :
          agent_leave_coalition(a, th)
    /\ UNCHANGED outsideLedger

MergeStep ==
    /\ \E c1 \in CoalitionIds : \E c2 \in CoalitionIds :
          merge_coalitions(c1, c2)
    /\ UNCHANGED outsideLedger

\* reputations move only before the first proposal is made
ReputationStep ==
    /\ proposals = <<>>
    /\ \E m \in MemAgents : \E delta \in ReputationDeltas :
          update_reputation(m, delta)
    /\ UNCHANGED outsideLedger

\* the coalition ledger driven by its five operations
Next ==
    \/ ProposeStep
    \/ AcceptStep
    \/ DissolveStep
    \/ LeaveStep
    \/ MergeStep

\* the ledger after construction; the payment handler is idle
Init ==
    /\ InitLedger
    /\ InitHandler("plain")
    /\ InitFlow
    /\ InitHandle(DefaultMaxRetries)
    /\ InitV1("address")
    /\ InitTrade("agent", "default", {})
    /\ InitArchetype(NoLogicInputs)
    /\ InitModification("AgentMemory", FALSE)
    /\ InitWorld
    /\ InitHall

Spec == Init /\ [][Next]_vars

\* the payoff split under every reputation the memories can hold
NextSplit ==
    \/ ReputationStep
    \/ SplitProposeStep

SpecSplit == Init /\ [][NextSplit]_vars

\* the retry loop with a handler built on any wallet manager
InitPay ==
    /\ InitLedger
    /\ \E manager \in WalletManagers : InitHandler(manager)
    /\ InitFlow
    /\ InitHandle(DefaultMaxRetries)
    /\ InitV1("address")
    /\ InitTrade("agent", "default", {})
    /\ InitArchetype(NoLogicInputs)
    /\ InitModification("AgentMemory", FALSE)
    /\ InitWorld
    /\ InitHall

NextPay ==
    \/ StartStep
    \/ RequestStep
    \/ PayStep
    \/ ResendStep

SpecPay == InitPay /\ [][NextPay]_vars

\* handle_402_response on a handler built on any wallet manager and
\* configured with any X402_MAX_RETRIES, and the signing of the first-version
\* handler
InitHandling ==
    /\ InitLedger
    /\ \E manager \in WalletManagers : InitHandler(manager)
    /\ InitFlow
    /\ \E configured \in ConfigRetries : InitHandle(configured)
    /\ \E answer \in AddressAnswers : InitV1(answer)
    /\ InitTrade("agent", "default", {})
    /\ InitArchetype(NoLogicInputs)
    /\ InitModification("AgentMemory", FALSE)
    /\ InitWorld
    /\ InitHall

NextHandling ==
    \/ CallHandleStep
    \/ TryPaymentStep
    \/ SignV1Step

SpecHandling == InitHandling /\ [][NextHandling]_vars

\* both payment entry points on one handler, each call run to its end by the
\* thread that made it: a call that has started keeps taking its steps
\* (requests.get returns or raises, time.sleep returns); MaxPaymentCalls
\* calls in all
InitPayments ==
    /\ InitLedger
    /\ \E manager \in WalletManagers : InitHandler(manager)
    /\ InitFlow
    /\ \E configured \in ConfigRetries : InitHandle(configured)
    /\ InitV1("address")
    /\ InitTrade("agent", "default", {})
    /\ InitArchetype(NoLogicInputs)
    /\ InitModification("AgentMemory", FALSE)
    /\ InitWorld
    /\ InitHall

\* get_resource_with_x402_retry is entered while no handle_402_response runs
StartAloneStep ==
    /\ h_pc # "try"
    /\ flows + h_calls < MaxPaymentCalls
    /\ StartStep

\* handle_402_response is entered while no retry loop runs
CallHandleAloneStep ==
    /\ pc \in {"idle", "done"}
    /\ flows + h_calls < MaxPaymentCalls
    /\ CallHandleStep

NextPayments ==
    \/ StartAloneStep
    \/ RequestStep
    \/ PayStep
    \/ ResendStep
    \/ CallHandleAloneStep
    \/ TryPaymentStep

FairPayments ==
    /\ WF_vars(RequestStep)
    /\ WF_vars(PayStep)
    /\ WF_vars(ResendStep)
    /\ WF_vars(TryPaymentStep)

SpecPayments == InitPayments /\ [][NextPayments]_vars /\ FairPayments

\* negotiations and evaluations with appraisal, for every kind of initiator,
\* archetype and set of agent memories
InitTrading ==
    /\ InitLedger
    /\ InitHandler("plain")
    /\ InitFlow
    /\ InitHandle(DefaultMaxRetries)
    /\ InitV1("address")
    /\ \E kind \in AgentKinds : \E archetype \in Archetypes :
          \E memories \in MemoryHolders : InitTrade(kind, archetype, memories)
    /\ InitArchetype(NoLogicInputs)
    /\ InitModification("AgentMemory", FALSE)
    /\ InitWorld
    /\ InitHall

NextTrading ==
    \/ NegotiateStep
    \/ EvaluateStep

SpecTrading == InitTrading /\ [][NextTrading]_vars

\* the same arguments appraised under each archetype profile
InitProfiles ==
    /\ InitLedger
    /\ InitHandler("plain")
    /\ InitFlow
    /\ InitHandle(DefaultMaxRetries)
    /\ InitV1("address")
    /\ InitTrade("agent", "default", {})
    /\ \E inputs \in LogicInputs : InitArchetype(inputs)
    /\ InitModification("AgentMemory", FALSE)
    /\ InitWorld
    /\ InitHall

NextProfiles == ApplyArchetypeStep

SpecProfiles == InitProfiles /\ [][NextProfiles]_vars

\* modification requests on a registered capsule, for each agent memory and
\* with live mode on and off
InitModifying ==
    /\ InitLedger
    /\ InitHandler("plain")
    /\ InitFlow
    /\ InitHandle(DefaultMaxRetries)
    /\ InitV1("address")
    /\ InitTrade("agent", "default", {})
    /\ InitArchetype(NoLogicInputs)
    /\ \E memory \in MemoryKinds : \E live_mode \in BOOLEAN :
          InitModification(memory, live_mode)
    /\ InitWorld
    /\ InitHall

NextModifying == ProposeModificationStep

SpecModifying == InitModifying /\ [][NextModifying]_vars

\* the black swan engine with its circuit breaker and feature flag
InitSwan ==
    /\ InitLedger
    /\ InitHandler("plain")
    /\ InitFlow
    /\ InitHandle(DefaultMaxRetries)
    /\ InitV1("address")
    /\ InitTrade("agent", "default", {})
    /\ InitArchetype(NoLogicInputs)
    /\ InitModification("AgentMemory", FALSE)
    /\ InitWorld
    /\ InitHall

NextSwan ==
    \/ InjectStep
    \/ DisableStep
    \/ EnableStep
    \/ FlagStep

SpecSwan == InitSwan /\ [][NextSwan]_vars

\* threads posting dreams concurrently while the clock runs
InitPosting ==
    /\ InitLedger
    /\ InitHandler("plain")
    /\ InitFlow
    /\ InitHandle(DefaultMaxRetries)
    /\ InitV1("address")
    /\ InitTrade("agent", "default", {})
    /\ InitArchetype(NoLogicInputs)
    /\ InitModification("AgentMemory", FALSE)
    /\ InitWorld
    /\ InitHall

NextPosting ==
    \/ TickStep
    \/ HallFlagStep
    \/ BeginPostStep
    \/ AcquireStep
    \/ CheckStep
    \/ AppendStep
    \/ RecordStep

SpecPosting == InitPosting /\ [][NextPosting]_vars

\* ================================================================= claims

\* the agents that sit in the member set of a coalition of the registry
ActiveMembers == UNION {coalitions[c] : c \in DOMAIN coalitions}

\* C1: after any sequence of ledger operations the member sets of distinct
\* coalitions in the registry are pairwise disjoint (an agent is a member of
\* at most one active coalition).
C1_AtMostOneCoalition ==
    \A c1 \in DOMAIN coalitions : \A c2 \in DOMAIN coalitions :
        c1 # c2 => coalitions[c1] \cap coalitions[c2] = {}

\* two coalitions are active at once, the later one committed by an accept
C1_Witness ==
    /\ Cardinality(DOMAIN coalitions) >= 2
    /\ lastCall.op = "accept_coalition"
    /\ lastCall.ret = "true"

AcceptWouldFail(j) == accept_rejected(proposals[j])

C3_SharesSumToPool ==
    \A i \in DOMAIN proposals :
        LET p == proposals[i]
            s == p.payoff_shares
        IN /\ DOMAIN s.num = p.members
           /\ s.den > 0
           /\ Abs(SumOver(s.num, p.members) - p.pooled_payoff * s.den) * 1000000
                <= s.den

\* a proposal was returned for three members whose reputations are all 0
C3_Witness ==
    \E i \in DOMAIN proposals :
        /\ proposals[i].members \subseteq MemAgents
        /\ \A m \in proposals[i].members : reputation_score[m] = 0

\* C4: Propose returns none exactly when initiator and candidates are fewer
\* than 3 distinct ids or one of them maps to an active coalition; otherwise
\* the proposal's members are exactly that set; Propose never changes the
\* coalitions or the reverse index.
C4_ProposeNoneExactlyWhen ==
    [][\A a \in Agents : \A cands \in CandidateLists(a) :
          \A pay \in {0} \cup LowPayoffs(cands \cup {a}) :
          propose_coalition(a, cands, pay) =>
            LET ids == cands \cup {a} IN
            /\ lastCall'.ret = "none" <=>
                 \/ Cardinality(ids) < 3
                 \/ \E m \in ids : agent_to_coalition[m] \in DOMAIN coalitions
            /\ lastCall'.ret # "none" =>
                 /\ Len(proposals') = Len(proposals) + 1
                 /\ proposals'[Len(proposals')].members = ids
            /\ UNCHANGED <<coalitions, agent_to_coalition>>
      ]_vars

\* C5: every coalition in the registry has at least 3 members; a coalition
\* that drops below 3 members is removed by the operation that shrinks it.
C5_AtLeastThreeMembers ==
    \A c \in DOMAIN coalitions : Cardinality(coalitions[c]) >= 3

\* a leave has just shrunk a coalition below 3 members and the coalition is gone
C5_Witness ==
    /\ lastCall.op = "agent_leave_coalition"
    /\ lastCall.ret = "true"
    /\ DOMAIN coalitions = {}
    /\ \E i \in DOMAIN proposals : proposals[i].accepted

\* the share the ledger stores for an agent is below the threshold (an agent
\* without a stored share counts with 0)
StoredShareBelow(a, th) ==
    LET c == agent_to_coalition[a] IN
    IF c \in DOMAIN coalition_payoff_shares
       /\ a \in DOMAIN coalition_payoff_shares[c].num
    THEN coalition_payoff_shares[c].num[a] < th * coalition_payoff_shares[c].den
    ELSE 0 < th

\* C6: AgentLeave returns true, removing the agent from its coalition and from
\* the reverse index, exactly when the agent is in an active coalition and its
\* stored share is below the threshold; otherwise it returns false and nothing
\* changes.  When fewer than 3 members remain the coalition is removed together
\* with the reverse-index entries of the remaining members.
C6_LeaveExactlyWhen ==
    [][\A a \in Agents : \A th \in PayoffThresholds :
          agent_leave_coalition(a, th) =>
            LET leaves == /\ a \in ActiveMembers
                          /\ StoredShareBelow(a, th)
                c == agent_to_coalition[a]
            IN
            /\ lastCall'.ret = "true" <=> leaves
            /\ lastCall'.ret # "true" =>
                 /\ lastCall'.ret = "false"
                 /\ UNCHANGED <<coalitions, agent_to_coalition,
                                coalition_payoff_shares>>
            /\ lastCall'.ret = "true" =>
                 /\ agent_to_coalition'[a] = 0
                 /\ a \notin ActiveMembers'
                 /\ Cardinality(coalitions[c] \ {a}) < 3 =>
                      /\ c \notin DOMAIN coalitions'
                      /\ \A m \in coalitions[c] : agent_to_coalition'[m] = 0
      ]_vars

\* C7: Merge returns none and changes nothing unless both ids are active and
\* their union has at least 3 members; otherwise both old coalitions are gone
\* and one new coalition holds exactly the union under a new id that differs
\* from both arguments, to which the reverse index maps every member.
C7_MergeUnderNewId ==
    [][\A c1 \in CoalitionIds : \A c2 \in CoalitionIds :
          merge_coalitions(c1, c2) =>
            IF /\ c1 \in DOMAIN coalitions
               /\ c2 \in DOMAIN coalitions
               /\ Cardinality(coalitions[c1] \cup coalitions[c2]) >= 3
            THEN LET new == lastCall'.val IN
                 /\ lastCall'.ret = "id"
                 /\ new \notin {c1, c2}
                 /\ c1 \notin DOMAIN coalitions'
                 /\ c2 \notin DOMAIN coalitions'
                 /\ new \in DOMAIN coalitions'
                 /\ coalitions'[new] = coalitions[c1] \cup coalitions[c2]
                 /\ \A m \in coalitions[c1] \cup coalitions[c2] :
                       agent_to_coalition'[m] = new
            ELSE /\ lastCall'.ret = "none"
                 /\ UNCHANGED <<coalitions, agent_to_coalition,
                                coalition_payoff_shares, next_coalition_id>>
      ]_vars

\* C8: propose_split gives every member reputation/total x payoff when the
\* total reputation is not 0 and payoff/|members| when it is 0, a member
\* without a memory counting with reputation 1.0.  (checked on the split of
\* each returned proposal against the reputations at the time of the call)
C8_SplitByReputation ==
    [][Len(proposals') = Len(proposals) + 1 =>
          LET p == proposals'[Len(proposals')]
              s == p.payoff_shares
              rep == [a \in p.members |->
                        IF a \in DOMAIN reputation_score
                        THEN reputation_score[a] ELSE 1]
              total == SumOver(rep, p.members)
          IN \A a \in p.members :
                IF total # 0
                THEN s.num[a] * total = rep[a] * p.pooled_payoff * s.den
                ELSE s.num[a] * Cardinality(p.members) = p.pooled_payoff * s.den
      ]_vars

\* a split over members with and without a memory, with unequal reputations
C8_Witness ==
    \E i \in DOMAIN proposals :
        LET ms == proposals[i].members IN
        /\ ms \cap MemAgents # {}
        /\ ms \ MemAgents # {}
        /\ \E m \in ms \cap MemAgents : reputation_score[m] = 5
        /\ \E m \in ms \cap MemAgents : reputation_score[m] = 0

\* the requests of the current flow of a kind ("get" or "paid")
requests_of(kind) == {i \in DOMAIN sent : sent[i].kind = kind}

\* the receipts the handler appended during the current flow
flow_receipts == {i \in DOMAIN receipts : receipts[i].payment_id[1] = flows}

\* the flow ended Failed: nothing returned, or a response that is not a 2xx
flow_failed ==
    \/ result.returned = "none"
    \/ result.returned = "response" /\ result.response.status \notin 200..299

\* the first request was answered 402 with valid payment parameters and the
\* resend that followed was answered 200
PaidOnFirstResend ==
    /\ pc = "done"
    /\ Len(sent) >= 2
    /\ sent[1].response.status = StatusPaymentRequired
    /\ sent[1].response.body = "valid"
    /\ sent[2].kind = "paid"
    /\ sent[2].response.status = StatusOK

AlwaysPaymentRequired ==
    /\ pc = "done"
    /\ sent # <<>>
    /\ \A i \in DOMAIN sent : sent[i].response.status = StatusPaymentRequired

EveryPaymentSigned ==
    /\ \A i \in requests_of("get") : sent[i].response.body = "valid"
    /\ handler_calls.sign = handler_calls.header

FirstRequestNotPaymentRequired ==
    /\ sent # <<>>
    /\ ~(sent[1].response.status = 402)

\* C11: when the first request raises or returns a status other than 402 the
\* flow ends at once, Succeeded on a 2xx and Failed otherwise, without parsing,
\* signing or a second request.
C11_NonPaymentResponseEndsFlow ==
    FirstRequestNotPaymentRequired =>
        /\ pc = "done"
        /\ Len(sent) = 1
        /\ handler_calls = NoHandlerCalls
        /\ flow_receipts = {}
        /\ result = IF sent[1].response = RequestException
                    THEN ReturnedNone
                    ELSE Returned(sent[1].response)
        /\ flow_failed <=> sent[1].response.status \notin 200..299

C11_Witness ==
    /\ FirstRequestNotPaymentRequired
    /\ sent[1].response.status = StatusForbidden
    /\ max_retries = MaxRetriesArg
    /\ flow_failed

\* the last request sent was a plain one answered 402
LastWasPaymentRequired ==
    /\ sent # <<>>
    /\ sent[Len(sent)].kind = "get"
    /\ sent[Len(sent)].response.status = 402

\* the 402 body last received cannot be parsed into payment parameters
LastBodyMalformed ==
    /\ LastWasPaymentRequired
    /\ sent[Len(sent)].response.body \in {"invalid_json", "missing_field"}

\* the last signing returned no signature
LastSigningFailed ==
    /\ LastWasPaymentRequired
    /\ handler_calls.sign > handler_calls.header

\* C12: a request with the payment header is sent only after the 402 body was
\* parsed and a signature obtained; a parse failure or a missing signature
\* ends the flow Failed with the 402 response and no resend.
C12_ResendOnlyAfterParseAndSign ==
    /\ Cardinality(requests_of("paid")) <= handler_calls.header
    /\ handler_calls.header <= handler_calls.sign
    /\ handler_calls.sign <= handler_calls.parse
    /\ pc = "resend" =>
          /\ payment_header.signature # ""
          /\ payment_header.paymentId = response.paymentId
          /\ response.body \in {"valid"}
    /\ LastBodyMalformed => pc \in {"pay", "done"}
    /\ (pc = "done" /\ (LastBodyMalformed \/ LastSigningFailed)) =>
          /\ result = Returned(sent[Len(sent)].response)
          /\ flow_failed
          /\ Cardinality(requests_of("paid")) = handler_calls.header

C12_Witness ==
    /\ pc = "done"
    /\ LastBodyMalformed
    /\ sent[Len(sent)].response.body = "missing_field"
    /\ Len(sent) = 3

C12_WitnessNoSignature ==
    /\ pc = "done"
    /\ LastSigningFailed
    /\ sent[Len(sent)].response.body = "valid"

\* C13: after a resend answered with a failure that is not of a retryable
\* class, such as a 403, the flow ends Failed with that response and sends
\* nothing more.
C13_TerminalResendFailureEndsFlow ==
    \A i \in requests_of("paid") :
        sent[i].response.status = StatusForbidden =>
            /\ i = Len(sent)
            /\ pc = "done"
            /\ result = Returned(sent[i].response)

\* the finished call of handle_402_response met a retryable error in every
\* pass through its try block
PersistentlyRetryable ==
    /\ h_pc = "done"
    /\ h_tries > 0
    /\ Len(h_errors) = h_tries
    /\ \A i \in DOMAIN h_errors : h_errors[i].class = "retryable"

\* C14: under persistently retryable errors handle_402_response makes as many
\* attempts as X402_MAX_RETRIES configures, for every configured value, and
\* only then returns nothing.
C14_AttemptsGovernedByConfig ==
    PersistentlyRetryable =>
        /\ h_result = "none"
        /\ h_tries = config_max_retries

\* C15: when the wallet manager has no wallet address the signing returns no
\* signature and the payment attempt fails: no mock signature, no receipt, no
\* successful result.
C15_NoSignatureWithoutWallet ==
    /\ v1_last.address = "none" => v1_last.signature = ""
    /\ wallet = "fallback" =>
          /\ receipts = <<>>
          /\ h_result # "receipt"
          /\ metrics.x402_success_total = 0

\* a step that is one call of negotiate_trade_with_appraisal
NegotiationCall ==
    /\ trade_calls' = trade_calls + 1
    /\ last_trade'.op = "negotiate"

\* a step that is one call of evaluate_proposal_with_appraisal
EvaluationCall ==
    /\ trade_calls' = trade_calls + 1
    /\ last_trade'.op = "evaluate"

\* the call contacted nobody: no pitch, no pitch cost, no event in any
\* memory, no NFT
NothingBeyondAppraisal ==
    /\ pitches' = pitches
    /\ events' = events
    /\ current_owned_nfts' = current_owned_nfts
    /\ last_trade'.pitch = NoPitch
    /\ last_trade'.nft_minted = 0

\* C16: when the initiator's own appraisal returned a decision other than
\* accept, the negotiation returns a rejection by the initiator at once: no
\* pitch is generated, nothing is written to the target's memory, no NFT is
\* minted and no pitch cost is incurred
C16_NotAcceptRejectsImmediately ==
    [][(NegotiationCall /\ last_trade'.decision \in {"reject", "error"})
         => /\ last_trade'.trade_result = "rejected_by_initiator"
            /\ NothingBeyondAppraisal]_vars

\* the negotiation went as far as the target's decision
ReachedTargetDecision == last_trade'.trade_result \in {"accepted", "rejected"}

C18_ProbabilityIsWeightedSum ==
    [][(NegotiationCall /\ ReachedTargetDecision)
         => last_trade'.acceptance_probability
              = combined_probability(last_trade'.capsules,
                                     last_trade'.final_net_value,
                                     last_trade'.pitch)]_vars

\* the records with a correlation id in the memory of one agent
records_in(log, holder, correlation_id) ==
    {i \in DOMAIN log : /\ log[i].memory = holder
                        /\ log[i].correlation_id = correlation_id}

\* C19: every negotiation and every evaluation gets a correlation id that no
\* earlier call received and leaves exactly one record with that id in the
\* memory of the agent that made the call, whatever the outcome
C19_FreshIdLoggedOnce ==
    [][((NegotiationCall \/ EvaluationCall) /\ "initiator" \in setup.memories)
         => /\ last_trade'.correlation_id > uuids
            /\ \A earlier \in DOMAIN trade_history :
                   trade_history[earlier].correlation_id
                       # last_trade'.correlation_id
            /\ Cardinality(records_in(events', "initiator",
                                      last_trade'.correlation_id)) = 1]_vars

\* C20: the appraisal inside a negotiation never fails outward: it returns a
\* result whose decision is accept or reject, and accept exactly when the
\* final net value is above zero
C20_AppraiseNeverFailsOutward ==
    last_trade.op = "negotiate"
        => /\ last_trade.decision \in {"accept", "reject"}
           /\ last_trade.decision = "accept" <=> last_trade.final_net_value > 0

\* both profiles were applied to the same arguments, the strategy bonus is
\* positive and the visionary risk multiplier is above one
VisionaryAndDefaultCompared ==
    /\ final_values["visionary"].ok
    /\ final_values["default"].ok
    /\ logic_inputs.ugtt_bonus > 0
    /\ get_archetype_config("visionary").risk_multiplier > 10

\* C21 as stated: for identical base value, drift, alignment, strategy bonus
\* and costs the visionary final net value is at least the default one
\* whenever the bonus is positive and the visionary risk multiplier above one
C21_VisionaryAtLeastDefault ==
    VisionaryAndDefaultCompared
        => final_values["visionary"].v >= final_values["default"].v

\* C21 amended: the same, for a base value and a drift adjustment that are
\* not negative
C21_VisionaryAtLeastDefaultNonNegative ==
    (/\ VisionaryAndDefaultCompared
     /\ logic_inputs.base_value >= 0
     /\ logic_inputs.drift_adjustment >= 0)
        => final_values["visionary"].v >= final_values["default"].v

\* both profiles were applied to a positive base value and a positive bonus,
\* and the visionary value is strictly larger
C21_Witness ==
    /\ VisionaryAndDefaultCompared
    /\ logic_inputs.base_value > 0
    /\ logic_inputs.drift_adjustment >= 0
    /\ final_values["visionary"].v > final_values["default"].v

\* a step that is one call of propose_modification
ModificationCall == mod_calls' = mod_calls + 1

\* C22: propose_modification with a field outside the allowed set returns
\* status rejected with a reason and leaves the capsule and the registry as
\* they were; it does not raise
C22_UnknownFieldRejected ==
    [][(/\ ModificationCall
        /\ last_mod'.capsule_id \in CapsuleIds
        /\ ~(last_mod'.modification \subseteq AllowedFields))
         => /\ ~last_mod'.raised
            /\ last_mod'.status = "rejected"
            /\ last_mod'.reason
            /\ registry_capsules' = registry_capsules]_vars

\* C30: whenever propose_modification returns status error or rejected, the
\* goal, values and tags of the capsule in the registry are what they were
\* before the call, also when the goal reevaluation after the field updates
\* fails
C30_FailedModificationChangesNothing ==
    [][(/\ ModificationCall
        /\ ~last_mod'.raised
        /\ last_mod'.status \in {"error", "rejected"})
         => registry_capsules' = registry_capsules]_vars

\* a step that is one call of inject_chaotic_event
InjectCall == swan_calls' = swan_calls + 1

\* C23: an injection whose effects raise disables the engine and returns
\* None; a disabled engine is enabled again only by enable_black_swan_engine;
\* and while the engine is disabled or the chaos_pack flag is off, a call
\* injects no event and returns no event id
C23_BreakerStopsInjection ==
    [][/\ (InjectCall /\ last_swan'.effects_raised)
            => /\ ~black_swan_enabled'
               /\ last_swan'.returned = NoEventId
               /\ applied_events' = applied_events
       /\ (~black_swan_enabled /\ black_swan_enabled')
            => last_swan'.op = "enable"
       /\ (InjectCall /\ (~black_swan_enabled \/ ~chaos_pack))
            => /\ last_swan'.returned = NoEventId
               /\ applied_events' = applied_events
               /\ event_ids' = event_ids]_vars

\* the effects of an injection raised, and a later injection with the flag
\* on, a valid event and working effects returned None
C23_Witness ==
    /\ last_swan.op = "inject"
    /\ last_swan.manual_event \in EventTypes
    /\ ~last_swan.effects_raised
    /\ last_swan.returned = NoEventId
    /\ chaos_pack
    /\ ~black_swan_enabled
    /\ event_ids > Len(applied_events)

\* two accepted posts of one agent lie at least one interval apart, by the
\* timestamps of their dreams
AcceptedPostsApart ==
    \A i, j \in DOMAIN accepted_posts :
        (i < j /\ accepted_posts[i].agent_id = accepted_posts[j].agent_id)
            => accepted_posts[j].timestamp - accepted_posts[i].timestamp
                 >= PostInterval

\* a call raised only when its own agent had posted less than one interval
\* before the call's check
RaisedOnlyByOwnPost ==
    \A t \in Threads :
        t_outcome[t] = "raised"
            => \E i \in DOMAIN accepted_posts :
                   /\ accepted_posts[i].agent_id = t_agent[t]
                   /\ t_now[t] - accepted_posts[i].recorded < PostInterval

\* C24: under every interleaving of concurrent post_dream calls two posts of
\* the same agent are never both accepted less than post_interval_seconds
\* apart, a refused post adds no dream, and posts of other agents do not
\* limit an agent
C24_OnePostPerInterval ==
    /\ AcceptedPostsApart
    /\ RaisedOnlyByOwnPost
    /\ Len(dreams) = Len(accepted_posts)
                     + Cardinality({t \in Threads : t_pc[t] = "record"})

\* a post was refused, and posts of two different agents were accepted less
\* than one interval apart
C24_Witness ==
    /\ \E t \in Threads : t_outcome[t] = "raised"
    /\ \E i, j \in DOMAIN accepted_posts :
           /\ accepted_posts[i].agent_id # accepted_posts[j].agent_id
           /\ accepted_posts[j].timestamp - accepted_posts[i].timestamp
                < PostInterval
           /\ i < j

\* C25: the reverse index and the registry agree after any sequence of ledger
\* operations: agent_to_coalition[a] = c exactly when coalition c is in the
\* registry and a is in its member set.
C25_IndexAgreesWithRegistry ==
    \A a \in Agents : \A c \in CoalitionIds :
        agent_to_coalition[a] = c <=>
            (c \in DOMAIN coalitions /\ a \in coalitions[c])

\* C26: an Accept that returns true registers its coalition under an id that
\* is not in the registry, so every coalition that was active before the call
\* is active with the same members after it (two proposals over disjoint
\* member sets accepted one after another are both in the registry).
C26_AcceptNeverOverwrites ==
    [][\A i \in DOMAIN proposals :
          (accept_coalition(i) /\ lastCall'.ret = "true") =>
            /\ proposals[i].coalition_id \notin DOMAIN coalitions
            /\ \A c \in DOMAIN coalitions :
                  /\ c \in DOMAIN coalitions'
                  /\ coalitions'[c] = coalitions[c]
      ]_vars

\* the agents that hold a stored payoff share of a coalition
ShareHolders(c) == DOMAIN shares_of(c).num

\* C27: for every coalition in the registry the agents that hold a stored
\* payoff share are exactly its current members (a leaver's share is gone
\* when its coalition stays active, and a merged coalition carries no share
\* of an agent outside it).
C27_SharesBelongToMembers ==
    \A c \in DOMAIN coalitions : ShareHolders(c) = coalitions[c]

\* a call of get_resource_with_x402_retry is under way
FlowRunning == pc \in {"request", "pay", "resend"}

\* the call has returned a response (Succeeded, or Failed with the response
\* that ended it) or nothing (Failed)
FlowTerminal == pc = "done" /\ result # Pending

\* C28: for every sequence of server responses and signer outcomes a payment
\* flow that has started reaches a terminal outcome; the retry loop issues at
\* most 2 x (max_retries + 1) requests and handle_402_response makes at most
\* max_retries passes through its try block.
C28_FlowTerminatesWithinBounds ==
    /\ [](Len(sent) <= 2 * (max_retries + 1))
    /\ [](h_tries <= config_max_retries)
    /\ FlowRunning ~> FlowTerminal
    /\ (h_pc = "try") ~> (h_pc = "done" /\ h_result # "pending")

\* a retry loop that used all its requests has ended
C28_Witness ==
    /\ FlowTerminal
    /\ max_retries = MaxRetriesArg
    /\ Len(sent) = 2 * (MaxRetriesArg + 1)

\* a call of handle_402_response that used all the attempts configured has
\* ended
C28_WitnessAttempts ==
    /\ h_pc = "done"
    /\ h_result = "none"
    /\ config_max_retries = ErrorHandlerMaxRetries
    /\ h_tries = config_max_retries

\* the calls of handle_402_response that have returned
CompletedCalls == IF h_pc = "try" THEN h_calls - 1 ELSE h_calls

\* C29: the counters account for every flow of handle_402_response: every
\* pass through the try block raises x402_attempts_total by one and nothing
\* else changes it; the completed calls are counted once each in
\* x402_success_total or x402_failed_total; and there are as many stored
\* receipts as x402_success_total counts.
C29_CountersAccountForFlows ==
    /\ [][metrics'.x402_attempts_total - metrics.x402_attempts_total
            = IF h_calls' = h_calls THEN h_tries' - h_tries ELSE 0]_vars
    /\ [](h_pc # "try" =>
            metrics.x402_success_total + metrics.x402_failed_total
                = CompletedCalls)
    /\ [](Len(receipts) = metrics.x402_success_total)

====
